---- MODULE Spec2Model ----
(***************************************************************************)
(* Verification model of tui-wireguard-vpn: the WireGuard service          *)
(* (internal/vpn/service.go), the configuration processor                  *)
(* (internal/config) and the Bubble Tea main model (main.go).              *)
(*                                                                         *)
(* Strings the code inspects by prefix or substring are sequences of       *)
(* tokens, so that HasPrefix / Contains are computed, not assumed:         *)
(* "julo-nonprod" is <<"julo-", "non", "prod">>.                           *)
(***************************************************************************)
EXTENDS Integers, Sequences, FiniteSets, TLC

VARIABLES
    active,     \* interfaces the external tool reports, in listing order
    svc,        \* the service call that has just returned ("none": idle)
    fs,         \* the files: path -> content (a sequence of tokens) or NoFile
    cfg,        \* the configuration call that has just returned ("none": idle)
    m,          \* the main model of the interface (main.go, type model)
    tasks,      \* the task commands Init and Update have returned whose
                \* completion message Update has not consumed yet
    quit,       \* tea.Quit has been returned: the program has ended
    upd         \* the Update call that has just returned: the message it
                \* handled and the command it returned

vpnVars == <<active, svc>>
cfgVars == <<fs, cfg>>
uiVars == <<m, tasks, quit, upd>>
vars == <<active, svc, fs, cfg, m, tasks, quit, upd>>

Idle == [op |-> "none"]

---------------------------------------------------------------------------
(* Strings *)

Range(s) == {s[i] : i \in 1..Len(s)}

HasPrefix(s, p) == Len(s) >= Len(p) /\ SubSeq(s, 1, Len(p)) = p

Contains(s, sub) ==
    \E i \in 0..(Len(s) - Len(sub)) : SubSeq(s, i + 1, i + Len(sub)) = sub

Remove(s, x) == SelectSeq(s, LAMBDA y : y # x)

\* the blank, carriage-return and newline bytes
SP == " "
CR == "\r"
NL == "\n"

RECURSIVE JoinLines(_)
JoinLines(lines) ==
    IF lines = <<>> THEN <<>> ELSE Head(lines) \o <<NL>> \o JoinLines(Tail(lines))

\* bufio.Scanner, strings.Fields, fmt.Fprintln
IndexOf(data, tok) ==
    IF \E i \in 1..Len(data) : data[i] = tok
    THEN CHOOSE i \in 1..Len(data) : data[i] = tok /\ \A j \in 1..(i - 1) : data[j] # tok
    ELSE 0

\* bufio.ScanLines drops one trailing carriage return of a line
dropCR(data) ==
    IF Len(data) > 0 /\ data[Len(data)] = CR THEN SubSeq(data, 1, Len(data) - 1) ELSE data

\* the lines bufio.Scanner yields: split at newlines, the last line with or
\* without its newline
RECURSIVE ScanLines(_)
ScanLines(data) ==
    IF data = <<>> THEN <<>>
    ELSE LET i == IndexOf(data, NL)
         IN  IF i > 0
             THEN <<dropCR(SubSeq(data, 1, i - 1))>> \o ScanLines(SubSeq(data, i + 1, Len(data)))
             ELSE <<dropCR(data)>>

IsSpace(tok) == tok \in {SP, CR, NL}

\* strings.Fields: the maximal runs of non-blank tokens
RECURSIVE Fields(_)
Fields(line) ==
    IF line = <<>> THEN <<>>
    ELSE IF IsSpace(Head(line)) THEN Fields(Tail(line))
    ELSE LET n == IF \E i \in 1..Len(line) : IsSpace(line[i])
                  THEN (CHOOSE i \in 1..Len(line) :
                            IsSpace(line[i]) /\ \A j \in 1..(i - 1) : ~IsSpace(line[j])) - 1
                  ELSE Len(line)
         IN  <<SubSeq(line, 1, n)>> \o Fields(SubSeq(line, n + 1, Len(line)))

Fprintln(out, line) == out \o line \o <<NL>>

HasSuffix(s, p) == Len(s) >= Len(p) /\ SubSeq(s, Len(s) - Len(p) + 1, Len(s)) = p

TrimPrefix(s, p) == IF HasPrefix(s, p) THEN SubSeq(s, Len(p) + 1, Len(s)) ELSE s

TrimSuffix(s, p) == IF HasSuffix(s, p) THEN SubSeq(s, 1, Len(s) - Len(p)) ELSE s

\* strings.TrimSpace
RECURSIVE TrimLeft(_)
TrimLeft(s) == IF s # <<>> /\ IsSpace(Head(s)) THEN TrimLeft(Tail(s)) ELSE s
RECURSIVE TrimRight(_)
TrimRight(s) ==
    IF s # <<>> /\ IsSpace(s[Len(s)]) THEN TrimRight(SubSeq(s, 1, Len(s) - 1)) ELSE s
TrimSpace(s) == TrimRight(TrimLeft(s))

\* strings.Split(s, sep) and strings.SplitN(s, sep, 2), sep one token
RECURSIVE Split(_, _)
Split(s, sep) ==
    LET i == IndexOf(s, sep)
    IN  IF i = 0 THEN <<s>>
        ELSE <<SubSeq(s, 1, i - 1)>> \o Split(SubSeq(s, i + 1, Len(s)), sep)
SplitN2(s, sep) ==
    LET i == IndexOf(s, sep)
    IN  IF i = 0 THEN <<s>> ELSE <<SubSeq(s, 1, i - 1), SubSeq(s, i + 1, Len(s))>>

\* strings.Join(lines, "\n")
RECURSIVE Join(_)
Join(lines) ==
    IF lines = <<>> THEN <<>>
    ELSE IF Len(lines) = 1 THEN lines[1]
    ELSE Head(lines) \o <<NL>> \o Join(Tail(lines))

\* Numerals.  A decimal numeral is a digit-string token, or a digit-string
\* token, the token "." and a two-digit token; the tables give the value of
\* the digit strings the texts are made of.
IntegerOf == ("0" :> 0) @@ ("1" :> 1) @@ ("2" :> 2) @@ ("5" :> 5) @@ ("30" :> 30)
             @@ ("200" :> 200)
HundredthsOf == ("00" :> 0) @@ ("25" :> 25) @@ ("50" :> 50)

\* strconv.Atoi: the value of a digit string, an error for any other text
Atoi(s) ==
    IF Len(s) = 1 /\ s[1] \in DOMAIN IntegerOf
    THEN [value |-> IntegerOf[s[1]], err |-> "nil"]
    ELSE [value |-> 0, err |-> "invalid syntax"]

\* strconv.ParseFloat(s, 64): whole and hundredths of a decimal numeral, an
\* error for any other text (blanks around the numeral included)
ParseFloat(s) ==
    IF Len(s) = 1 /\ s[1] \in DOMAIN IntegerOf
    THEN [whole |-> IntegerOf[s[1]], hundredths |-> 0, err |-> "nil"]
    ELSE IF /\ Len(s) = 3
            /\ s[1] \in DOMAIN IntegerOf
            /\ s[2] = "."
            /\ s[3] \in DOMAIN HundredthsOf
    THEN [whole |-> IntegerOf[s[1]], hundredths |-> HundredthsOf[s[3]], err |-> "nil"]
    ELSE [whole |-> 0, hundredths |-> 0, err |-> "invalid syntax"]

---------------------------------------------------------------------------
(* internal/vpn/types.go *)

Production == <<"prod">>
NonProduction == <<"non", "prod">>
NoEnvironment == <<>>
Environments == {Production, NonProduction}

JuloPrefix == <<"julo-">>

\* fmt.Sprintf("julo-%s", string(env))
ConfigName(env) == JuloPrefix \o env

JuloProd == ConfigName(Production)
JuloNonprod == ConfigName(NonProduction)
\* an interface with the managed prefix and no environment marker, and an
\* interface that is not managed at all
JuloTest == <<"julo-", "test">>
Wg0 == <<"wg0">>
IfaceNames == {JuloProd, JuloNonprod, JuloTest, Wg0}

\* &ConnectionStatus{Connected: false}
Disconnected ==
    [Connected |-> FALSE, Environment |-> NoEnvironment, Interface |-> <<>>,
     Endpoint |-> <<>>, LastSeen |-> <<>>, BytesRx |-> 0, BytesTx |-> 0]

---------------------------------------------------------------------------
(* The external tool.  A subprocess call is an input of the service: each  *)
(* call succeeds or fails on its own.                                      *)

\* res: "ok" or "fail"; a status query may also come back "garbled"
Call(cmd, arg, res) == [cmd |-> cmd, arg |-> arg, res |-> res]
Res(ok) == IF ok THEN "ok" ELSE "fail"

\* wg-quick down <name>: fails when <name> is not up; when it is up the
\* call removes it or fails leaving it up.
WgQuickDown(act, name, ok) ==
    IF ok /\ name \in Range(act)
    THEN [ok |-> TRUE, act |-> Remove(act, name)]
    ELSE [ok |-> FALSE, act |-> act]

\* wg-quick up <name>: fails when <name> is already up; otherwise the call
\* brings it up or fails leaving the state as it was.
WgQuickUp(act, name, ok) ==
    IF ok /\ name \notin Range(act)
    THEN [ok |-> TRUE, act |-> Append(act, name)]
    ELSE [ok |-> FALSE, act |-> act]

\* Outcomes of a status query: it runs and prints the state ("ok"), it runs
\* and prints text without any recognised line ("garbled"), or it fails.
QueryOutcomes == {"ok", "garbled", "fail"}

---------------------------------------------------------------------------
(* WireGuardService.GetStatus / getInterfaceStatus *)

\* mutant: the production marker is looked for first
EnvironmentOf_ProdFirst(interfaceName) ==
    IF Contains(interfaceName, <<"prod">>) THEN Production
    ELSE IF Contains(interfaceName, <<"non", "prod">>) THEN NonProduction
    ELSE NoEnvironment

\* if strings.Contains(interfaceName, "nonprod") ... else if
\* strings.Contains(interfaceName, "prod")
EnvironmentOf(interfaceName) ==
    IF Contains(interfaceName, <<"non", "prod">>) THEN NonProduction
    ELSE IF Contains(interfaceName, <<"prod">>) THEN Production
    ELSE NoEnvironment

\* time.Second and time.Minute, in seconds
Second == 1
Minute == 60

\* parseHandshakeTime; now is what time.Now() returns, in seconds; the time of
\* an error result is time.Time{}
parseHandshakeTime(handshakeStr, now) ==
    LET parts == Fields(handshakeStr)
        n == IF Len(parts) >= 1 THEN Atoi(parts[1]) ELSE [value |-> 0, err |-> "no field"]
    IN  IF Contains(handshakeStr, <<"second">>) /\ n.err = "nil"
        THEN [t |-> now - n.value * Second, err |-> "nil"]
        ELSE IF Contains(handshakeStr, <<"minute">>) /\ n.err = "nil"
        THEN [t |-> now - n.value * Minute, err |-> "nil"]
        ELSE [t |-> 0, err |-> "unable to parse handshake time"]

\* the units of a byte count: "KiB" is "Ki" followed by "B"
UnitB == <<"B">>
KiB == <<"Ki", "B">>
MiB == <<"Mi", "B">>
GiB == <<"Gi", "B">>

\* uint64(value * float64(multiplier)): the product is exact for a multiplier
\* that is a power of two; the conversion drops the fraction
Scale(whole, hundredths, multiplier) ==
    whole * multiplier + (multiplier \div 100) * hundredths
        + ((multiplier % 100) * hundredths) \div 100

\* parseBytes
parseBytes(bytesStr) ==
    LET s == TrimSpace(bytesStr)
        suffix == IF HasSuffix(s, KiB) THEN KiB
                  ELSE IF HasSuffix(s, MiB) THEN MiB
                  ELSE IF HasSuffix(s, GiB) THEN GiB
                  ELSE IF HasSuffix(s, UnitB) THEN UnitB
                  ELSE <<>>
        multiplier == IF suffix = KiB THEN 1024
                      ELSE IF suffix = MiB THEN 1024 * 1024
                      ELSE IF suffix = GiB THEN 1024 * 1024 * 1024
                      ELSE 1
        f == ParseFloat(TrimSuffix(s, suffix))
    IN  IF f.err # "nil"
        THEN [value |-> 0, err |-> f.err]
        ELSE [value |-> Scale(f.whole, f.hundredths, multiplier), err |-> "nil"]

\* getInterfaceStatus, the loop over the lines of the output of `wg show`:
\* a line sets the fields it has a value for and leaves the others
RECURSIVE scanStatus(_, _, _)
scanStatus(status, lines, now) ==
    IF lines = <<>> THEN status
    ELSE LET line == TrimSpace(Head(lines))
             handshakeStr == TrimSpace(TrimPrefix(line, <<"latest", SP, "handshake:">>))
             t == parseHandshakeTime(handshakeStr, now)
             parts == Split(TrimSpace(TrimPrefix(line, <<"transfer:">>)), ",")
             rx == parseBytes(TrimSpace(parts[1]))
             tx == parseBytes(TrimSpace(parts[2]))
             transfer == HasPrefix(line, <<"transfer:">>) /\ Len(parts) >= 2
         IN  scanStatus(
                 [status EXCEPT
                    !.Endpoint = IF HasPrefix(line, <<"endpoint:">>)
                                 THEN TrimSpace(TrimPrefix(line, <<"endpoint:">>))
                                 ELSE @,
                    !.LastSeen = IF /\ HasPrefix(line, <<"latest", SP, "handshake:">>)
                                    /\ handshakeStr # <<>>
                                    /\ handshakeStr # <<"0">>
                                    /\ t.err = "nil"
                                 THEN <<t.t>>
                                 ELSE @,
                    !.BytesRx = IF transfer /\ rx.err = "nil" THEN rx.value ELSE @,
                    !.BytesTx = IF transfer /\ tx.err = "nil" THEN tx.value ELSE @],
                 Tail(lines), now)

\* getInterfaceStatus once `wg show <interface>` has printed output
statusFrom(interfaceName, output, now) ==
    scanStatus([Connected |-> TRUE,
                Environment |-> EnvironmentOf(interfaceName),
                Interface |-> interfaceName,
                Endpoint |-> <<>>, LastSeen |-> <<>>, BytesRx |-> 0, BytesTx |-> 0],
               ScanLines(output), now)

\* the lines `wg show <interface>` prints for a peer
EndpointLine == <<SP, SP, "endpoint:", SP, "34.101.166.184:51820">>
HandshakeLine(text) == <<SP, SP, "latest", SP, "handshake:", SP>> \o text
TransferLine(rx, tx) == <<SP, SP, "transfer:", SP>> \o rx \o <<",", SP>> \o tx

\* The output of the status query in the service's and the main model's
\* state machines: a dump with the lines
\* "latest handshake: 1 minute, 30 seconds ago" and
\* "transfer: 1.50 MiB received, 200 KiB sent" ("ok"), or text without any
\* recognised line ("garbled"); the query is made at time SampleNow.
SampleNow == 1000
SampleOutput ==
    JoinLines(<< <<"interface:", SP, "julo">>,
                 EndpointLine,
                 HandshakeLine(<<"1", SP, "minute", ",", SP, "30", SP, "second", "s",
                                 SP, "ago">>),
                 TransferLine(<<"1", ".", "50", SP>> \o MiB \o <<SP, "received">>,
                              <<"200", SP>> \o KiB \o <<SP, "sent">>) >>)
OutputOf(outcome) == IF outcome = "ok" THEN SampleOutput ELSE <<"Usage:", SP, "wg", NL>>

\* the status of each interface for each output, as the loop over the lines
\* leaves it: of the dump it keeps the endpoint, reads the handshake as one
\* second ago and leaves the byte counters at zero
SampleStatus ==
    [interfaceName \in IfaceNames |-> [outcome \in {"ok", "garbled"} |->
        [Connected |-> TRUE,
         Environment |-> EnvironmentOf(interfaceName),
         Interface |-> interfaceName,
         Endpoint |-> IF outcome = "ok" THEN <<"34.101.166.184:51820">> ELSE <<>>,
         LastSeen |-> IF outcome = "ok" THEN <<SampleNow - 1>> ELSE <<>>,
         BytesRx |-> 0,
         BytesTx |-> 0]]]
SampleStatusIsParsed ==
    \A interfaceName \in IfaceNames, outcome \in {"ok", "garbled"} :
        SampleStatus[interfaceName][outcome]
            = statusFrom(interfaceName, OutputOf(outcome), SampleNow)

\* mutant: a failed `wg show <interface>` still names the interface
getInterfaceStatus_FailureKeepsName(act, interfaceName, outcome) ==
    LET out == IF interfaceName \in Range(act) THEN outcome ELSE "fail"
        q == <<Call("wg show", interfaceName, out)>>
    IN  IF out = "fail"
        THEN [status |-> [Disconnected EXCEPT !.Interface = interfaceName],
              err |-> "nil", calls |-> q]
        ELSE [err |-> "nil",
              status |-> SampleStatus[interfaceName][out],
              calls |-> q]

\* mutant: the error of `wg show <interface>` is not checked
getInterfaceStatus_IgnoresQueryError(act, interfaceName, outcome) ==
    [err |-> "nil",
     status |-> [Connected |-> TRUE,
                 Environment |-> EnvironmentOf(interfaceName),
                 Interface |-> interfaceName,
                 Endpoint |-> <<>>, LastSeen |-> <<>>, BytesRx |-> 0, BytesTx |-> 0],
     calls |-> <<Call("wg show", interfaceName,
                      IF interfaceName \in Range(act) THEN outcome ELSE "fail")>>]

\* mutant: the status does not record the name of the interface
getInterfaceStatus_NoInterfaceName(act, interfaceName, outcome) ==
    LET out == IF interfaceName \in Range(act) THEN outcome ELSE "fail"
        q == <<Call("wg show", interfaceName, out)>>
    IN  IF out = "fail"
        THEN [status |-> Disconnected, err |-> "nil", calls |-> q]
        ELSE [err |-> "nil",
              status |-> [SampleStatus[interfaceName][out] EXCEPT !.Interface = <<>>],
              calls |-> q]

getInterfaceStatus(act, interfaceName, outcome) ==
    LET out == IF interfaceName \in Range(act) THEN outcome ELSE "fail"
        q == <<Call("wg show", interfaceName, out)>>
    IN  IF out = "fail"
        THEN [status |-> Disconnected, err |-> "nil", calls |-> q]
        ELSE [err |-> "nil",
              status |-> SampleStatus[interfaceName][out],
              calls |-> q]

\* for i := 1; i < len(juloInterfaces); i++ { wg-quick down juloInterfaces[i] }
RECURSIVE StopExtras(_, _, _, _)
StopExtras(act, juloInterfaces, i, downOK) ==
    IF i > Len(juloInterfaces)
    THEN [act |-> act, calls |-> <<>>]
    ELSE LET d == WgQuickDown(act, juloInterfaces[i], juloInterfaces[i] \in downOK)
             rest == StopExtras(d.act, juloInterfaces, i + 1, downOK)
         IN  [act |-> rest.act,
              calls |-> <<Call("wg-quick down", juloInterfaces[i], Res(d.ok))>>
                           \o rest.calls]

\* mutant: the clean-up loop starts at index 0 and stops the first interface too
GetStatus_StopsAll(act, o) ==
    LET q == <<Call("wg show", <<>>, o.showAll)>>
        listed == IF o.showAll = "ok" THEN act ELSE <<>>
        juloInterfaces == SelectSeq(listed, LAMBDA n : HasPrefix(n, JuloPrefix))
    IN  IF o.showAll = "fail" \/ Len(juloInterfaces) = 0
        THEN [status |-> Disconnected, err |-> "nil", calls |-> q, act |-> act]
        ELSE LET cl == StopExtras(act, juloInterfaces, 1, o.downOK \cup {juloInterfaces[1]})
                 r == getInterfaceStatus(cl.act, juloInterfaces[1], o.showIf)
             IN  [status |-> r.status,
                  err |-> r.err,
                  calls |-> q \o cl.calls \o r.calls,
                  act |-> cl.act]

\* mutant: every listed interface is collected, whatever its name
GetStatus_NoPrefixFilter(act, o) ==
    LET q == <<Call("wg show", <<>>, o.showAll)>>
        juloInterfaces == IF o.showAll = "ok" THEN act ELSE <<>>
    IN  IF o.showAll = "fail" \/ Len(juloInterfaces) = 0
        THEN [status |-> Disconnected, err |-> "nil", calls |-> q, act |-> act]
        ELSE LET cl == StopExtras(act, juloInterfaces, 2, o.downOK)
                 r == getInterfaceStatus(cl.act, juloInterfaces[1], o.showIf)
             IN  [status |-> r.status,
                  err |-> r.err,
                  calls |-> q \o cl.calls \o r.calls,
                  act |-> cl.act]

\* o.showAll, o.showIf: outcomes of the two queries; o.downOK: the extra
\* interfaces whose bring-down succeeds.
GetStatus(act, o) ==
    LET q == <<Call("wg show", <<>>, o.showAll)>>
        listed == IF o.showAll = "ok" THEN act ELSE <<>>
        juloInterfaces == SelectSeq(listed, LAMBDA n : HasPrefix(n, JuloPrefix))
    IN  IF o.showAll = "fail" \/ Len(juloInterfaces) = 0
        THEN [status |-> Disconnected, err |-> "nil", calls |-> q, act |-> act]
        ELSE LET cl == StopExtras(act, juloInterfaces, 2, o.downOK)
                 r == getInterfaceStatus(cl.act, juloInterfaces[1], o.showIf)
             IN  [status |-> r.status,
                  err |-> r.err,
                  calls |-> q \o cl.calls \o r.calls,
                  act |-> cl.act]

\* The outcomes that make a difference to GetStatus in state act.
ProbeOracles(act) ==
    LET julo == SelectSeq(act, LAMBDA n : HasPrefix(n, JuloPrefix))
    IN  {[showAll |-> a, showIf |-> "ok", downOK |-> {}] : a \in {"garbled", "fail"}}
        \cup
        IF Len(julo) = 0
        THEN {[showAll |-> "ok", showIf |-> "ok", downOK |-> {}]}
        ELSE {[showAll |-> "ok", showIf |-> b, downOK |-> d] :
                b \in QueryOutcomes, d \in SUBSET Range(Tail(julo))}

---------------------------------------------------------------------------
(* WireGuardService.Stop *)

\* for _, iface := range []string{"julo-prod", "julo-nonprod"}
RECURSIVE StopFallback(_, _, _)
StopFallback(act, ifaces, downOK) ==
    IF ifaces = <<>>
    THEN [err |-> "no_active_interface", calls |-> <<>>, act |-> act]
    ELSE LET d == WgQuickDown(act, Head(ifaces), Head(ifaces) \in downOK)
         IN  IF d.ok
             THEN [err |-> "nil", act |-> d.act,
                   calls |-> <<Call("wg-quick down", Head(ifaces), "ok")>>]
             ELSE LET rest == StopFallback(act, Tail(ifaces), downOK)
                  IN  [err |-> rest.err, act |-> rest.act,
                       calls |-> <<Call("wg-quick down", Head(ifaces), "fail")>>
                                    \o rest.calls]

\* mutant: the early return for a disconnected status is missing
StopWith_NoConnectedCheck(status, act, downOK) ==
    IF status.Interface = <<>>
    THEN StopFallback(act, <<JuloProd, JuloNonprod>>, {JuloProd, JuloNonprod})
    ELSE LET d == WgQuickDown(act, status.Interface, status.Interface \in downOK)
         IN  [err |-> IF d.ok THEN "nil" ELSE "down_failed",
              calls |-> <<Call("wg-quick down", status.Interface, Res(d.ok))>>,
              act |-> d.act]

\* mutant: the fallback tries julo-nonprod before julo-prod
StopWith_FallbackNonprodFirst(status, act, downOK) ==
    IF ~status.Connected
    THEN [err |-> "nil", calls |-> <<>>, act |-> act]
    ELSE IF status.Interface = <<>>
    THEN StopFallback(act, <<JuloNonprod, JuloProd>>, downOK)
    ELSE LET d == WgQuickDown(act, status.Interface, status.Interface \in downOK)
         IN  [err |-> IF d.ok THEN "nil" ELSE "down_failed",
              calls |-> <<Call("wg-quick down", status.Interface, Res(d.ok))>>,
              act |-> d.act]

\* Stop after its GetStatus has returned status: downOK holds the interfaces
\* whose bring-down succeeds.
StopWith(status, act, downOK) ==
    IF ~status.Connected
    THEN [err |-> "nil", calls |-> <<>>, act |-> act]
    ELSE IF status.Interface = <<>>
    THEN StopFallback(act, <<JuloProd, JuloNonprod>>, downOK)
    ELSE LET d == WgQuickDown(act, status.Interface, status.Interface \in downOK)
         IN  [err |-> IF d.ok THEN "nil" ELSE "down_failed",
              calls |-> <<Call("wg-quick down", status.Interface, Res(d.ok))>>,
              act |-> d.act]

\* status, err := w.GetStatus(); if err != nil { return err }
Stop(act, o, downOK) ==
    LET p == GetStatus(act, o)
        s == IF p.err # "nil"
             THEN [err |-> p.err, calls |-> <<>>, act |-> p.act]
             ELSE StopWith(p.status, p.act, downOK)
    IN  [err |-> s.err, calls |-> p.calls \o s.calls, act |-> s.act,
         probes |-> <<p.status>>]

DownOracles(status) ==
    IF ~status.Connected THEN {{}}
    ELSE IF status.Interface = <<>> THEN SUBSET {JuloProd, JuloNonprod}
    ELSE {{}, {status.Interface}}

---------------------------------------------------------------------------
(* WireGuardService.Start *)

\* mutant: the error Stop returns is dropped and the bring-up goes ahead
StartAfterStop_IgnoresStopError(stopErr, act, env, upOK) ==
    LET u == WgQuickUp(act, ConfigName(env), upOK)
    IN  [err |-> IF u.ok THEN "nil" ELSE "up_failed",
         calls |-> <<Call("wg-quick up", ConfigName(env), Res(u.ok))>>,
         act |-> u.act]

\* if stopErr := w.Stop(); stopErr != nil { return ... }
StartAfterStop(stopErr, act, env, upOK) ==
    IF stopErr # "nil"
    THEN [err |-> "stop_failed", calls |-> <<>>, act |-> act]
    ELSE LET u == WgQuickUp(act, ConfigName(env), upOK)
         IN  [err |-> IF u.ok THEN "nil" ELSE "up_failed",
              calls |-> <<Call("wg-quick up", ConfigName(env), Res(u.ok))>>,
              act |-> u.act]

Start(act, env, o1, o2, downOK, upOK) ==
    LET p == GetStatus(act, o1)
        stopped == p.err = "nil" /\ p.status.Connected
        s == IF stopped
             THEN Stop(p.act, o2, downOK)
             ELSE [err |-> "nil", calls |-> <<>>, act |-> p.act, probes |-> <<>>]
        u == StartAfterStop(s.err, s.act, env, upOK)
    IN  [err |-> u.err, calls |-> p.calls \o s.calls \o u.calls, act |-> u.act,
         probes |-> <<p.status>> \o s.probes,
         stopErr |-> IF stopped THEN s.err ELSE "not_called"]


\* every way a call can go in state act, over the outcomes of its subprocesses
ProbeRuns(act) == {GetStatus(act, o) : o \in ProbeOracles(act)}

StopRuns(act) ==
    UNION {{Stop(act, o, downOK) : downOK \in DownOracles(GetStatus(act, o).status)} :
             o \in ProbeOracles(act)}

StartRuns(act, env) ==
    UNION {LET p == GetStatus(act, o1)
           IN  IF p.status.Connected
               THEN UNION {{Start(act, env, o1, o2, downOK, upOK) :
                              downOK \in DownOracles(GetStatus(p.act, o2).status),
                              upOK \in BOOLEAN} :
                           o2 \in ProbeOracles(p.act)}
               ELSE {Start(act, env, o1, o1, {}, upOK) : upOK \in BOOLEAN} :
           o1 \in ProbeOracles(act)}

\* WireGuardService.UpdateConfig is defined with the configuration processor

---------------------------------------------------------------------------
(* internal/config: constants and files.  A file is a sequence of tokens;  *)
(* " ", "\r" and "\n" are the blank, carriage-return and newline bytes.    *)

ProdEndpoint == "34.101.166.184:51820"
NonProdEndpoint == "34.128.85.147:51820"

\* filepath.Join(ConfigDir, ...)
ProdTemplatePath == "/etc/wireguard/julo-prod-template.conf"
NonProdTemplatePath == "/etc/wireguard/julo-nonprod-template.conf"
ProdConfigPath == "/etc/wireguard/julo-prod.conf"
NonProdConfigPath == "/etc/wireguard/julo-nonprod.conf"
\* a file of the user's, outside the configuration directory
UserPath == "/home/user/wg.conf"
Paths == {ProdTemplatePath, NonProdTemplatePath, ProdConfigPath,
          NonProdConfigPath, UserPath}

\* the content of a path that names no file: no file holds this token
NoFile == <<"<no file>">>

TemplateDNSLine == <<"DNS", SP, "=", SP, "169.254.169.254">>
ProdAllowedIPsLine ==
    <<"AllowedIPs", SP, "=", SP, "169.254.169.254/32", ",", SP, "172.31.0.0/32">>
NonProdAllowedIPsLine ==
    <<"AllowedIPs", SP, "=", SP, "172.30.0.0/16", ",", SP, "169.254.169.254/32">>

\* the lines of the embedded templates that the processor reads
prodTemplateContent ==
    JoinLines(<< <<"[Interface]">>,
                 <<SP, "PrivateKey", SP, "=", SP, "xxxx">>,
                 TemplateDNSLine,
                 <<"[Peer]">>,
                 <<"Endpoint", SP, "=", SP, SP, ProdEndpoint>>,
                 ProdAllowedIPsLine >>)

nonprodTemplateContent ==
    JoinLines(<< <<"[Interface]">>,
                 <<SP, "PrivateKey", SP, "=", SP, "xxxx">>,
                 TemplateDNSLine,
                 <<"[Peer]">>,
                 <<"Endpoint", SP, "=", SP, SP, NonProdEndpoint>>,
                 NonProdAllowedIPsLine >>)

---------------------------------------------------------------------------
(* ConfigProcessor *)

\* mutant: the file is opened for appending instead of being created anew
writeFileWithContent_Appends(files, path, content, fault) ==
    IF fault = "create_denied" THEN [err |-> "create_denied", files |-> files]
    ELSE IF fault = "write_failed"
    THEN [err |-> "write_failed",
          files |-> [files EXCEPT ![path] = IF @ = NoFile THEN <<>> ELSE @]]
    ELSE [err |-> "nil",
          files |-> [files EXCEPT ![path] = IF @ = NoFile THEN content ELSE @ \o content]]

\* writeFileWithContent: os.Create makes the file or truncates it, WriteString
\* stores the content; a failed write leaves the file empty
writeFileWithContent(files, path, content, fault) ==
    IF fault = "create_denied" THEN [err |-> "create_denied", files |-> files]
    ELSE IF fault = "write_failed"
    THEN [err |-> "write_failed", files |-> [files EXCEPT ![path] = <<>>]]
    ELSE [err |-> "nil", files |-> [files EXCEPT ![path] = content]]

\* the failures of InstallTemplates: of os.MkdirAll, and of the creation or
\* the write of either template
InstallFaults ==
    {"none", "mkdir_denied", "prod_create_denied", "prod_write_failed",
     "nonprod_create_denied", "nonprod_write_failed"}

\* the part of a failure of InstallTemplates that one of its writes sees
WriteFault(fault, which) ==
    IF fault = (IF which = "prod" THEN "prod_create_denied" ELSE "nonprod_create_denied")
    THEN "create_denied"
    ELSE IF fault = (IF which = "prod" THEN "prod_write_failed" ELSE "nonprod_write_failed")
    THEN "write_failed"
    ELSE "none"

InstallTemplates(files, fault) ==
    IF fault = "mkdir_denied"
    THEN [err |-> "failed to create config directory", files |-> files]
    ELSE LET prod == writeFileWithContent(files, ProdTemplatePath, prodTemplateContent,
                                          WriteFault(fault, "prod"))
             nonprod == writeFileWithContent(prod.files, NonProdTemplatePath,
                                             nonprodTemplateContent,
                                             WriteFault(fault, "nonprod"))
         IN  IF prod.err # "nil"
             THEN [err |-> "failed to install production template", files |-> prod.files]
             ELSE IF nonprod.err # "nil"
             THEN [err |-> "failed to install non-production template",
                   files |-> nonprod.files]
             ELSE [err |-> "nil", files |-> nonprod.files]

\* a run of bufio.MaxScanTokenSize bytes without a newline
LongRun == "<64 KiB without newline>"

\* the loop `for scanner.Scan()` and scanner.Err(): the lines of the file up
\* to the first one that does not fit the buffer of the Scanner
ScanUpTo(all, long) ==
    IF long = {} THEN [lines |-> all, err |-> "nil"]
    ELSE [lines |-> SubSeq(all, 1, (CHOOSE i \in long : \A j \in long : i <= j) - 1),
          err |-> "bufio.Scanner: token too long"]
\* long: the positions of the lines that do not fit
ScanAll(all) == ScanUpTo(all, {i \in 1..Len(all) : LongRun \in Range(all[i])})
Scan(data) == ScanAll(ScanLines(data))

\* mutant: the first line that contains "Endpoint" decides, whatever its fields
RECURSIVE extractEndpointLines_FirstTokenLine(_)
extractEndpointLines_FirstTokenLine(lines) ==
    IF lines = <<>> THEN [err |-> "no_endpoint", endpoint |-> <<>>]
    ELSE IF Contains(Head(lines), <<"Endpoint">>)
    THEN IF Len(Fields(Head(lines))) >= 3
         THEN [err |-> "nil", endpoint |-> Fields(Head(lines))[3]]
         ELSE [err |-> "no_endpoint", endpoint |-> <<>>]
    ELSE extractEndpointLines_FirstTokenLine(Tail(lines))

\* extractEndpoint: the third field of the first line that contains
\* "Endpoint" and has three fields
RECURSIVE extractEndpointLines(_)
extractEndpointLines(lines) ==
    IF lines = <<>> THEN [err |-> "no_endpoint", endpoint |-> <<>>]
    ELSE IF Contains(Head(lines), <<"Endpoint">>) /\ Len(Fields(Head(lines))) >= 3
    THEN [err |-> "nil", endpoint |-> Fields(Head(lines))[3]]
    ELSE extractEndpointLines(Tail(lines))

extractEndpoint(files, configPath, fault) ==
    IF fault = "user_unreadable"
    THEN [err |-> "open_denied", endpoint |-> <<>>]
    ELSE extractEndpointLines(Scan(files[configPath]).lines)

\* extractConfigLine: the first line that starts with key
RECURSIVE extractConfigLineFrom(_, _)
extractConfigLineFrom(lines, key) ==
    IF lines = <<>> THEN [err |-> "key_not_found", line |-> <<>>]
    ELSE IF HasPrefix(Head(lines), <<key>>) THEN [err |-> "nil", line |-> Head(lines)]
    ELSE extractConfigLineFrom(Tail(lines), key)

extractConfigLine(files, configPath, key) ==
    extractConfigLineFrom(Scan(files[configPath]).lines, key)

\* the scan loop of updateConfig
RECURSIVE MergeLines(_, _, _, _)
MergeLines(out, lines, templateDNS, templateAllowedIPs) ==
    IF lines = <<>> THEN out
    ELSE LET line == Head(lines)
             emit == IF HasPrefix(line, <<"AllowedIPs">>) THEN templateAllowedIPs
                     ELSE IF HasPrefix(line, <<"DNS">>) THEN templateDNS
                     ELSE line
         IN  MergeLines(Fprintln(out, emit), Tail(lines), templateDNS, templateAllowedIPs)

\* mutant: the AllowedIPs line of the template is looked up before its DNS line
updateConfig_AllowedIPsFirst(files, userConfigPath, templatePath, outputPath, fault) ==
    LET dns == extractConfigLine(files, templatePath, "DNS")
        ips == extractConfigLine(files, templatePath, "AllowedIPs")
    IN  IF ips.err # "nil"
        THEN [err |-> "template_no_allowedips", files |-> files, scanned |-> <<>>]
        ELSE IF dns.err # "nil"
        THEN [err |-> "template_no_dns", files |-> files, scanned |-> <<>>]
        ELSE IF fault = "user_unreadable"
        THEN [err |-> "open_denied", files |-> files, scanned |-> <<>>]
        ELSE IF fault = "output_unwritable"
        THEN [err |-> "create_denied", files |-> files, scanned |-> <<>>]
        ELSE LET created == [files EXCEPT ![outputPath] = <<>>]
                 s == Scan(created[userConfigPath])
             IN  [err |-> s.err,
                  files |-> [created EXCEPT
                               ![outputPath] = MergeLines(<<>>, s.lines, dns.line, ips.line)],
                  scanned |-> s.lines]

\* updateConfig: os.Open(userConfigPath), then os.Create(outputPath), which
\* truncates the file at outputPath, then the scan of the opened user file;
\* the result is scanner.Err()
updateConfig(files, userConfigPath, templatePath, outputPath, fault) ==
    LET dns == extractConfigLine(files, templatePath, "DNS")
        ips == extractConfigLine(files, templatePath, "AllowedIPs")
    IN  IF dns.err # "nil" THEN [err |-> "template_no_dns", files |-> files, scanned |-> <<>>]
        ELSE IF ips.err # "nil"
        THEN [err |-> "template_no_allowedips", files |-> files, scanned |-> <<>>]
        ELSE IF fault = "user_unreadable"
        THEN [err |-> "open_denied", files |-> files, scanned |-> <<>>]
        ELSE IF fault = "output_unwritable"
        THEN [err |-> "create_denied", files |-> files, scanned |-> <<>>]
        ELSE LET created == [files EXCEPT ![outputPath] = <<>>]
                 s == Scan(created[userConfigPath])
             IN  [err |-> s.err,
                  files |-> [created EXCEPT
                               ![outputPath] = MergeLines(<<>>, s.lines, dns.line, ips.line)],
                  scanned |-> s.lines]

\* mutant: the endpoint is matched by prefix instead of compared whole
Classify_PrefixMatch(endpoint) ==
    IF HasPrefix(endpoint, <<ProdEndpoint>>)
    THEN [err |-> "nil", templatePath |-> ProdTemplatePath, outputPath |-> ProdConfigPath]
    ELSE IF HasPrefix(endpoint, <<NonProdEndpoint>>)
    THEN [err |-> "nil", templatePath |-> NonProdTemplatePath, outputPath |-> NonProdConfigPath]
    ELSE [err |-> "not_julo_config", templatePath |-> "", outputPath |-> ""]

\* switch endpoint { case ProdEndpoint: ... case NonProdEndpoint: ... default: ... }
Classify(endpoint) ==
    IF endpoint = <<ProdEndpoint>>
    THEN [err |-> "nil", templatePath |-> ProdTemplatePath, outputPath |-> ProdConfigPath]
    ELSE IF endpoint = <<NonProdEndpoint>>
    THEN [err |-> "nil", templatePath |-> NonProdTemplatePath, outputPath |-> NonProdConfigPath]
    ELSE [err |-> "not_julo_config", templatePath |-> "", outputPath |-> ""]

ProcessUserConfig(files, userConfigPath, fault) ==
    LET none == [err |-> "nil", files |-> files, endpoint |-> <<>>,
                 templatePath |-> "", outputPath |-> "", scanned |-> <<>>]
    IN  IF files[userConfigPath] = NoFile
        THEN [none EXCEPT !.err = "user_config_not_found"]
        ELSE LET e == extractEndpoint(files, userConfigPath, fault)
                 c == Classify(e.endpoint)
             IN  IF e.err # "nil" THEN [none EXCEPT !.err = e.err]
                 ELSE IF c.err # "nil"
                 THEN [none EXCEPT !.err = c.err, !.endpoint = e.endpoint]
                 ELSE IF files[c.templatePath] = NoFile
                 THEN [none EXCEPT !.err = "template_not_found", !.endpoint = e.endpoint,
                                   !.templatePath = c.templatePath,
                                   !.outputPath = c.outputPath]
                 ELSE LET u == updateConfig(files, userConfigPath, c.templatePath,
                                            c.outputPath, fault)
                      IN  [err |-> u.err, files |-> u.files, endpoint |-> e.endpoint,
                           templatePath |-> c.templatePath, outputPath |-> c.outputPath,
                           scanned |-> u.scanned]

\* runtime.GOOS
GOOS == {"linux", "darwin", "windows"}

\* the text of the error of the platform for an open that is denied: EACCES
\* on Linux and macOS, ERROR_ACCESS_DENIED on Windows
DeniedText(goos) == IF goos = "windows" THEN "Access is denied." ELSE "permission denied"

\* err.Error() of the errors of ProcessUserConfig
ErrorText(err, goos) ==
    IF err = "open_denied"
    THEN <<"failed to extract endpoint from config:", "open", ":", DeniedText(goos)>>
    ELSE IF err = "create_denied"
    THEN <<"failed to update config:",
           "failed to create output file (try running with sudo):",
           "open", ":", DeniedText(goos)>>
    ELSE <<err>>

\* getPermissionErrorMessage
getPermissionErrorMessage(goos) ==
    IF goos = "windows"
    THEN "insufficient permissions to write config files: run as Administrator"
    ELSE "insufficient permissions to write config files: sudo tui-wireguard-vpn"

\* ProcessUserConfigDirectly: an error whose text names a denied permission
\* is replaced by the remediation message of the platform
ProcessUserConfigDirectly(files, userConfigPath, fault, goos) ==
    LET r == ProcessUserConfig(files, userConfigPath, fault)
    IN  IF r.err # "nil"
           /\ \E t \in {"permission denied", "operation not permitted", "access is denied"} :
                  Contains(ErrorText(r.err, goos), <<t>>)
        THEN [r EXCEPT !.err = getPermissionErrorMessage(goos)]
        ELSE r

\* WireGuardService.UpdateConfig
UpdateConfig(files, userConfigPath, fault, goos) ==
    IF userConfigPath = ""
    THEN [err |-> "path_required", files |-> files, endpoint |-> <<>>,
          templatePath |-> "", outputPath |-> "", scanned |-> <<>>]
    ELSE ProcessUserConfigDirectly(files, userConfigPath, fault, goos)

---------------------------------------------------------------------------
(* WireGuardService.GetConfig *)

\* fmt.Sprintf("/etc/wireguard/%s", fmt.Sprintf("julo-%s.conf", string(env)))
ConfigPathOf(env) == IF env = Production THEN ProdConfigPath ELSE NonProdConfigPath

KeyNames == {"PrivateKey", "PresharedKey", "PublicKey"}
Hidden == "[HIDDEN]"

\* the indented addresses of an AllowedIPs line
RECURSIVE cleanIPs(_)
cleanIPs(ips) ==
    IF ips = <<>> THEN <<>>
    ELSE << <<SP, SP>> \o TrimSpace(Head(ips)) >> \o cleanIPs(Tail(ips))

\* mutant: only the private key is hidden
filterLine_HidesPrivateKeyOnly(line) ==
    LET trimmedLine == TrimSpace(line)
        parts == SplitN2(trimmedLine, "=")
    IN  IF trimmedLine = <<>> \/ HasPrefix(trimmedLine, <<"#">>) THEN <<>>
        ELSE IF HasPrefix(trimmedLine, <<"PrivateKey">>)
        THEN IF Len(parts) = 2
             THEN << TrimSpace(parts[1]) \o <<SP, "=", SP, Hidden>> >>
             ELSE <<>>
        ELSE IF HasPrefix(trimmedLine, <<"AllowedIPs">>)
        THEN IF Len(parts) = 2
             THEN << TrimSpace(parts[1]) \o <<SP, "=">> >>
                    \o cleanIPs(Split(TrimSpace(parts[2]), ","))
             ELSE <<>>
        ELSE <<trimmedLine>>

\* the body of the loop over the lines: what one line adds to filteredLines
filterLine(line) ==
    LET trimmedLine == TrimSpace(line)
        parts == SplitN2(trimmedLine, "=")
    IN  IF trimmedLine = <<>> \/ HasPrefix(trimmedLine, <<"#">>) THEN <<>>
        ELSE IF \E name \in KeyNames : HasPrefix(trimmedLine, <<name>>)
        THEN IF Len(parts) = 2
             THEN << TrimSpace(parts[1]) \o <<SP, "=", SP, Hidden>> >>
             ELSE <<>>
        ELSE IF HasPrefix(trimmedLine, <<"AllowedIPs">>)
        THEN IF Len(parts) = 2
             THEN << TrimSpace(parts[1]) \o <<SP, "=">> >>
                    \o cleanIPs(Split(TrimSpace(parts[2]), ","))
             ELSE <<>>
        ELSE <<trimmedLine>>

RECURSIVE filterLines(_)
filterLines(lines) ==
    IF lines = <<>> THEN <<>> ELSE filterLine(Head(lines)) \o filterLines(Tail(lines))

GetConfig(files, env) ==
    IF files[ConfigPathOf(env)] = NoFile
    THEN [text |-> <<>>, err |-> "failed to read config file"]
    ELSE [text |-> Join(filterLines(Split(files[ConfigPathOf(env)], NL))), err |-> "nil"]

---------------------------------------------------------------------------
(* main.go: the main model.  The fields kept are the ones Update branches  *)
(* on; the message line, the activity log and the terminal size are          *)
(* presentation and are left out.                                          *)

choices == <<"Start Production VPN", "Start Non-Production VPN", "Stop VPN",
             "Refresh Status", "Update VPN Configuration", "Quit">>

initialModel ==
    [status |-> Disconnected, cursor |-> 0, loading |-> FALSE,
     activePanel |-> 0, showInputPanel |-> FALSE, inputModel |-> "nil"]

\* the commands Init and Update return
NoCmd == [cmd |-> "nil", env |-> NoEnvironment, path |-> ""]
QuitCmd == [cmd |-> "tea.Quit", env |-> NoEnvironment, path |-> ""]
\* tea.Batch(initCmd, sizeCmd): its message carries the terminal size only
SizeCmd == [cmd |-> "sizeCmd", env |-> NoEnvironment, path |-> ""]
checkVPNStatus == [cmd |-> "checkVPNStatus", env |-> NoEnvironment, path |-> ""]
startVPN(env) == [cmd |-> "startVPN", env |-> env, path |-> ""]
stopVPN == [cmd |-> "stopVPN", env |-> NoEnvironment, path |-> ""]
updateConfigCmd(configPath) ==
    [cmd |-> "updateConfig", env |-> NoEnvironment, path |-> configPath]

\* the commands that run a background task and end in a completion message
IsTask(c) == c.cmd \in {"checkVPNStatus", "startVPN", "stopVPN", "updateConfig"}

\* the completion messages
vpnStatusMsg(status, err) ==
    [type |-> "vpnStatusMsg", status |-> status, err |-> err,
     operation |-> <<>>, success |-> err = "nil"]
vpnOperationMsg(operation, err) ==
    [type |-> "vpnOperationMsg", status |-> Disconnected, err |-> err,
     operation |-> operation, success |-> err = "nil"]

\* what is kept of an Update call: the message, the command returned and the
\* path GetConfigPath gave when the call asked the input model for it
Handled(msg, cmd) ==
    [type |-> msg.type, operation |-> msg.operation, success |-> msg.success,
     cmd |-> cmd, configPath |-> ""]
KeyMsg == [type |-> "tea.KeyMsg", operation |-> <<>>, success |-> FALSE]
NoUpdate ==
    [type |-> "none", operation |-> <<>>, success |-> FALSE, cmd |-> NoCmd,
     configPath |-> ""]

\* func (m model) Init() tea.Cmd
ModelInit == checkVPNStatus

\* case "enter", " " with the main panel active and no input panel: switch m.cursor
MenuSelect(mm) ==
    IF mm.cursor = 0
    THEN [m |-> [mm EXCEPT !.loading = TRUE], cmd |-> startVPN(Production)]
    ELSE IF mm.cursor = 1
    THEN [m |-> [mm EXCEPT !.loading = TRUE], cmd |-> startVPN(NonProduction)]
    ELSE IF mm.cursor = 2
    THEN [m |-> [mm EXCEPT !.loading = TRUE], cmd |-> stopVPN]
    ELSE IF mm.cursor = 3
    THEN [m |-> [mm EXCEPT !.loading = TRUE], cmd |-> checkVPNStatus]
    ELSE IF mm.cursor = 4
    THEN [m |-> [mm EXCEPT !.showInputPanel = TRUE, !.activePanel = 1,
                           !.inputModel = "UpdateModel"],
          cmd |-> SizeCmd]
    ELSE IF mm.cursor = 5
    THEN [m |-> mm, cmd |-> QuitCmd]
    ELSE [m |-> mm, cmd |-> NoCmd]

\* the delegation that accepts a path but leaves the input panel open
Delegate_KeepsPanel(mm, configPath) ==
    IF mm.showInputPanel /\ mm.activePanel = 1 /\ mm.inputModel # "nil"
    THEN IF configPath # ""
         THEN [m |-> [mm EXCEPT !.loading = TRUE],
               cmd |-> updateConfigCmd(configPath)]
         ELSE [m |-> mm, cmd |-> NoCmd]
    ELSE [m |-> mm, cmd |-> NoCmd]

\* the tail of case tea.KeyMsg: the key goes to the input model when the input
\* panel is shown and active; configPath is what GetConfigPath returns after
\* the input model has handled the key
Delegate(mm, configPath) ==
    IF mm.showInputPanel /\ mm.activePanel = 1 /\ mm.inputModel # "nil"
    THEN IF configPath # ""
         THEN [m |-> [mm EXCEPT !.showInputPanel = FALSE, !.activePanel = 0,
                                !.inputModel = "nil", !.loading = TRUE],
               cmd |-> updateConfigCmd(configPath)]
         ELSE [m |-> mm, cmd |-> NoCmd]
    ELSE [m |-> mm, cmd |-> NoCmd]

\* the keys for which case tea.KeyMsg reaches m.inputModel.Update(msg): no
\* return before the delegation, and the input panel shown and active
InputModelUpdated(mm, key) ==
    /\ ~mm.loading
    /\ key \notin {"ctrl+c", "q", "tab", "esc"}
    /\ mm.showInputPanel
    /\ mm.activePanel = 1
    /\ mm.inputModel # "nil"

\* the key handling whose menu selection looks at the active panel only
UpdateKey_EnterIgnoresPanel(mm, key, configPath) ==
    IF mm.loading THEN [m |-> mm, cmd |-> NoCmd]
    ELSE IF key \in {"ctrl+c", "q"} THEN [m |-> mm, cmd |-> QuitCmd]
    ELSE IF key = "tab"
    THEN [m |-> [mm EXCEPT !.activePanel = (mm.activePanel + 1) % 4], cmd |-> NoCmd]
    ELSE IF key = "esc"
    THEN IF mm.showInputPanel
         THEN [m |-> [mm EXCEPT !.showInputPanel = FALSE, !.activePanel = 0,
                                !.inputModel = "nil"],
               cmd |-> NoCmd]
         ELSE [m |-> mm, cmd |-> QuitCmd]
    ELSE IF key \in {"up", "k"}
    THEN Delegate(IF mm.activePanel = 0 /\ mm.cursor > 0
                  THEN [mm EXCEPT !.cursor = mm.cursor - 1] ELSE mm, configPath)
    ELSE IF key \in {"down", "j"}
    THEN Delegate(IF mm.activePanel = 0 /\ mm.cursor < Len(choices) - 1
                  THEN [mm EXCEPT !.cursor = mm.cursor + 1] ELSE mm, configPath)
    ELSE IF key \in {"enter", " "} /\ mm.activePanel = 0
    THEN MenuSelect(mm)
    ELSE Delegate(mm, configPath)

\* Update, case tea.KeyMsg
UpdateKey(mm, key, configPath) ==
    IF mm.loading THEN [m |-> mm, cmd |-> NoCmd]
    ELSE IF key \in {"ctrl+c", "q"} THEN [m |-> mm, cmd |-> QuitCmd]
    ELSE IF key = "tab"
    THEN [m |-> [mm EXCEPT !.activePanel = (mm.activePanel + 1) % 4], cmd |-> NoCmd]
    ELSE IF key = "esc"
    THEN IF mm.showInputPanel
         THEN [m |-> [mm EXCEPT !.showInputPanel = FALSE, !.activePanel = 0,
                                !.inputModel = "nil"],
               cmd |-> NoCmd]
         ELSE [m |-> mm, cmd |-> QuitCmd]
    ELSE IF key \in {"up", "k"}
    THEN Delegate(IF mm.activePanel = 0 /\ mm.cursor > 0
                  THEN [mm EXCEPT !.cursor = mm.cursor - 1] ELSE mm, configPath)
    ELSE IF key \in {"down", "j"}
    THEN Delegate(IF mm.activePanel = 0 /\ mm.cursor < Len(choices) - 1
                  THEN [mm EXCEPT !.cursor = mm.cursor + 1] ELSE mm, configPath)
    ELSE IF key \in {"enter", " "} /\ mm.activePanel = 0 /\ ~mm.showInputPanel
    THEN MenuSelect(mm)
    ELSE Delegate(mm, configPath)

\* Update that leaves the loading flag set when an operation has failed
UpdateMsg_FailureKeepsLoading(mm, msg) ==
    IF msg.type = "vpnStatusMsg"
    THEN [m |-> [mm EXCEPT !.loading = FALSE,
                           !.status = IF msg.err # "nil" THEN mm.status ELSE msg.status],
          cmd |-> NoCmd]
    ELSE [m |-> [mm EXCEPT !.loading = IF msg.success THEN FALSE ELSE mm.loading],
          cmd |-> IF msg.success THEN checkVPNStatus ELSE NoCmd]

\* Update that treats a failed operation as fatal
UpdateMsg_FailureQuits(mm, msg) ==
    IF msg.type = "vpnStatusMsg"
    THEN [m |-> [mm EXCEPT !.loading = FALSE,
                           !.status = IF msg.err # "nil" THEN mm.status ELSE msg.status],
          cmd |-> NoCmd]
    ELSE [m |-> [mm EXCEPT !.loading = FALSE],
          cmd |-> IF msg.success THEN checkVPNStatus ELSE QuitCmd]

\* Update that shows no session once an operation has failed
UpdateMsg_FailureClearsStatus(mm, msg) ==
    IF msg.type = "vpnStatusMsg"
    THEN [m |-> [mm EXCEPT !.loading = FALSE,
                           !.status = IF msg.err # "nil" THEN mm.status ELSE msg.status],
          cmd |-> NoCmd]
    ELSE [m |-> [mm EXCEPT !.loading = FALSE,
                           !.status = IF msg.success THEN mm.status ELSE Disconnected],
          cmd |-> IF msg.success THEN checkVPNStatus ELSE NoCmd]

\* Update, case vpnStatusMsg and case vpnOperationMsg
UpdateMsg(mm, msg) ==
    IF msg.type = "vpnStatusMsg"
    THEN [m |-> [mm EXCEPT !.loading = FALSE,
                           !.status = IF msg.err # "nil" THEN mm.status ELSE msg.status],
          cmd |-> NoCmd]
    ELSE [m |-> [mm EXCEPT !.loading = FALSE],
          cmd |-> IF msg.success THEN checkVPNStatus ELSE NoCmd]

---------------------------------------------------------------------------
(* The processor as a state machine over the files.                        *)

MaxLines == 3

\* the lines a user's file is made of
LKey == <<"PrivateKey", SP, "=", SP, "secret">>
LKeyCR == LKey \o <<CR>>
LDNS == <<"DNS", SP, "=", SP, "1.1.1.1">>
LAllowedIPs == <<"AllowedIPs", SP, "=", SP, "0.0.0.0/0">>
LEndpointProd == <<"Endpoint", SP, "=", SP, ProdEndpoint>>
LEndpointNonProd == <<"Endpoint", SP, "=", SP, NonProdEndpoint>>
\* the production endpoint followed by one more digit
LEndpointOther == <<"Endpoint", SP, "=", SP, ProdEndpoint, "0">>
UserLines == {LKey, LKeyCR, LDNS, LAllowedIPs, LEndpointProd, LEndpointNonProd,
              LEndpointOther}

RECURSIVE LineSeqs(_)
LineSeqs(n) ==
    IF n = 0 THEN {<<>>}
    ELSE LET shorter == LineSeqs(n - 1)
         IN  shorter \cup {Append(ls, l) : ls \in {x \in shorter : Len(x) = n - 1},
                                             l \in UserLines}

\* a user's file: its lines, the last one with or without its newline
FileOf(lines, finalNewline) ==
    IF lines = <<>> \/ finalNewline THEN JoinLines(lines)
    ELSE SubSeq(JoinLines(lines), 1, Len(JoinLines(lines)) - 1)

UserFiles == {FileOf(ls, nl) : ls \in LineSeqs(MaxLines), nl \in BOOLEAN}

Faults == {"none", "user_unreadable", "output_unwritable"}

\* the file of a user with a production configuration
SampleProdUser == FileOf(<<LKey, LDNS, LEndpointProd, LAllowedIPs>>, TRUE)

\* the templates are installed, no merged configuration exists yet, and the
\* user has a file of their own (or none)
\* the state of the parts a specification leaves alone
NoUi ==
    /\ m = initialModel
    /\ tasks = <<>>
    /\ quit = FALSE
    /\ upd = NoUpdate

InitCfg ==
    /\ active = <<>>
    /\ svc = Idle
    /\ cfg = Idle
    /\ NoUi
    /\ \E u \in UserFiles \cup {NoFile} :
         fs = [p \in Paths |->
                 IF p = ProdTemplatePath THEN prodTemplateContent
                 ELSE IF p = NonProdTemplatePath THEN nonprodTemplateContent
                 ELSE IF p = UserPath THEN u
                 ELSE NoFile]

ProcessUserConfigCall ==
    /\ cfg = Idle
    /\ \E path \in {UserPath, ProdConfigPath, NonProdConfigPath}, fault \in Faults :
         LET r == ProcessUserConfig(fs, path, fault)
         IN  /\ fs' = r.files
             /\ cfg' = [op |-> "process", path |-> path, fault |-> fault, err |-> r.err,
                        endpoint |-> r.endpoint, templatePath |-> r.templatePath,
                        outputPath |-> r.outputPath, scanned |-> r.scanned, pre |-> fs]
             /\ UNCHANGED <<vpnVars, uiVars>>

ReturnCfg ==
    /\ cfg # Idle
    /\ cfg' = Idle
    /\ UNCHANGED <<fs, vpnVars, uiVars>>

NextCfg == ProcessUserConfigCall \/ ReturnCfg

SpecCfg == InitCfg /\ [][NextCfg]_vars

---------------------------------------------------------------------------
(* The service as a state machine: one call at a time on the external      *)
(* state, then the caller takes the result.                                *)

\* every listing of distinct interfaces
RECURSIVE Listings(_)
Listings(names) ==
    {<<>>} \cup UNION {{<<n>> \o l : l \in Listings(names \ {n})} : n \in names}

InitVpn ==
    /\ active \in Listings(IfaceNames)
    /\ svc = Idle
    /\ fs = [p \in Paths |-> NoFile]
    /\ cfg = Idle
    /\ NoUi

ProbeCall ==
    /\ svc = Idle
    /\ \E r \in ProbeRuns(active) :
             /\ active' = r.act
             /\ UNCHANGED <<cfgVars, uiVars>>
             /\ svc' = [op |-> "probe", env |-> NoEnvironment, err |-> r.err,
                        calls |-> r.calls, probes |-> <<r.status>>, pre |-> active,
                        stopErr |-> "not_called"]

StopCall ==
    /\ svc = Idle
    /\ \E r \in StopRuns(active) :
               /\ active' = r.act
               /\ UNCHANGED <<cfgVars, uiVars>>
               /\ svc' = [op |-> "stop", env |-> NoEnvironment, err |-> r.err,
                          calls |-> r.calls, probes |-> r.probes, pre |-> active,
                          stopErr |-> "not_called"]

StartCall ==
    /\ svc = Idle
    /\ \E env \in Environments :
         \E r \in StartRuns(active, env) :
                   /\ active' = r.act
                   /\ UNCHANGED <<cfgVars, uiVars>>
                   /\ svc' = [op |-> "start", env |-> env, err |-> r.err,
                              calls |-> r.calls, probes |-> r.probes, pre |-> active,
                              stopErr |-> r.stopErr]

\* the caller takes the result; the service is ready for the next call
Return ==
    /\ svc # Idle
    /\ svc' = Idle
    /\ UNCHANGED <<active, cfgVars, uiVars>>

NextVpn == ProbeCall \/ StopCall \/ StartCall \/ Return

SpecVpn == InitVpn /\ [][NextVpn]_vars

---------------------------------------------------------------------------
(* The body of Stop after its probe, as a state machine over the probe      *)
(* results: GetStatus names the interface of every connected result, and    *)
(* Stop also provides for a connected result without a name.               *)

\* &ConnectionStatus{Connected: true, Interface: interfaceName}
ConnectedAs(interfaceName) ==
    [Disconnected EXCEPT !.Connected = TRUE, !.Interface = interfaceName,
                         !.Environment = EnvironmentOf(interfaceName)]

InitStop ==
    /\ active \in Listings(IfaceNames)
    /\ svc = Idle
    /\ fs = [p \in Paths |-> NoFile]
    /\ cfg = Idle
    /\ NoUi

StopWithCall ==
    /\ svc = Idle
    /\ \E status \in {Disconnected, ConnectedAs(<<>>)}
                        \cup {ConnectedAs(n) : n \in Range(active)} :
         \E downOK \in DownOracles(status) :
            LET r == StopWith(status, active, downOK)
            IN  /\ active' = r.act
                /\ svc' = [op |-> "stopWith", status |-> status, downOK |-> downOK,
                           err |-> r.err, calls |-> r.calls, pre |-> active]
    /\ UNCHANGED <<cfgVars, uiVars>>

NextStop == StopWithCall \/ Return

SpecStop == InitStop /\ [][NextStop]_vars

---------------------------------------------------------------------------
(* The status query as a state machine over the texts `wg show` prints.    *)

\* the handshake texts "<N> second(s)" and "<N> minute(s)", with or without
\* the closing "ago": the text, N and the unit in seconds
SimpleHandshakes ==
    {[text |-> <<n, SP, u.word>> \o plural \o ago, n |-> IntegerOf[n], unit |-> u.unit] :
        n \in {"1", "5", "30"},
        u \in {[word |-> "second", unit |-> Second], [word |-> "minute", unit |-> Minute]},
        plural \in {<<>>, <<"s">>},
        ago \in {<<>>, <<SP, "ago">>}}

\* the other handshake texts: compound phrases, hours, "0", the empty text
OtherHandshakes ==
    { <<"1", SP, "minute", ",", SP, "30", SP, "second", "s", SP, "ago">>,
      <<"1", SP, "hour", ",", SP, "2", SP, "minute", "s", SP, "ago">>,
      <<"2", SP, "hour", "s", SP, "ago">>,
      <<"0">>,
      <<>> }

\* byte counts: a numeral and a unit; the counts stay below 2^31
Numerals == {<<"1", ".", "50">>, <<"200">>}
Units == {UnitB, KiB, MiB, GiB}
ByteCounts == {c \in [num : Numerals, unit : Units] : ~(c.num = <<"200">> /\ c.unit = GiB)}

\* the text of a byte count: with or without a blank before the unit, with
\* or without the word `wg show` adds
ByteText(c, spaced, word) ==
    c.num \o (IF spaced THEN <<SP>> ELSE <<>>) \o c.unit
          \o (IF word = <<>> THEN <<>> ELSE <<SP>> \o word)

Nows == {SampleNow, SampleNow + 1}

\* a managed interface whose name has the production marker and, after it,
\* the non-production marker
JuloProdNonprod == <<"julo-", "prod", "-", "non", "prod">>

InitStatus ==
    /\ SampleStatusIsParsed
    /\ active \in {<<JuloProd>>, <<JuloNonprod>>, <<JuloTest>>, <<JuloProdNonprod>>}
    /\ svc = Idle
    /\ fs = [p \in Paths |-> NoFile]
    /\ cfg = Idle
    /\ NoUi

\* getInterfaceStatus with `wg show <interface>` printing a dump
StatusCall ==
    /\ svc = Idle
    /\ \E interfaceName \in Range(active), now \in Nows,
          h \in {x.text : x \in SimpleHandshakes} \cup OtherHandshakes,
          rx \in ByteCounts, tx \in ByteCounts, spaced \in BOOLEAN, worded \in BOOLEAN :
         LET output ==
                 JoinLines(<< <<"interface:", SP>> \o interfaceName,
                              EndpointLine,
                              HandshakeLine(h),
                              TransferLine(
                                  ByteText(rx, spaced, IF worded THEN <<"received">> ELSE <<>>),
                                  ByteText(tx, spaced, IF worded THEN <<"sent">> ELSE <<>>)) >>)
         IN  svc' = [op |-> "getInterfaceStatus", name |-> interfaceName, now |-> now,
                     handshake |-> h, rx |-> rx, tx |-> tx, spaced |-> spaced,
                     worded |-> worded, err |-> "nil",
                     status |-> statusFrom(interfaceName, output, now)]
    /\ UNCHANGED <<active, cfgVars, uiVars>>

\* getInterfaceStatus with `wg show <interface>` failing
StatusCallFails ==
    /\ svc = Idle
    /\ \E interfaceName \in Range(active) :
         LET r == getInterfaceStatus(active, interfaceName, "fail")
         IN  svc' = [op |-> "getInterfaceStatus", name |-> interfaceName, now |-> SampleNow,
                     handshake |-> <<>>, rx |-> <<>>, tx |-> <<>>, spaced |-> FALSE,
                     worded |-> FALSE, err |-> r.err, status |-> r.status]
    /\ UNCHANGED <<active, cfgVars, uiVars>>

NextStatus == StatusCall \/ StatusCallFails \/ Return

SpecStatus == InitStatus /\ [][NextStatus]_vars

---------------------------------------------------------------------------
(* GetConfig as a state machine over the stored configurations.            *)

MaxStored == 2

\* key material, with and without the padding of its encoding
KeyA == "keyA"
KeyB == "keyB"
KeyValues == {<<KeyA>>, <<KeyA, "=">>}

\* the lines of a stored configuration: key lines with and without blanks
\* around the "=", and lines of other kinds
KeyLines ==
    {<<name>> \o sep \o value :
        name \in KeyNames, sep \in {<<SP, "=", SP>>, <<"=">>}, value \in KeyValues}
StoredLines ==
    KeyLines \cup { <<"[Interface]">>, TemplateDNSLine, ProdAllowedIPsLine,
                    <<"#", SP, "PrivateKey", SP, "=", SP, KeyA>> }

RECURSIVE StoredSeqs(_)
StoredSeqs(n) ==
    IF n = 0 THEN {<<>>}
    ELSE LET shorter == StoredSeqs(n - 1)
         IN  shorter \cup {Append(ls, l) : ls \in {x \in shorter : Len(x) = n - 1},
                                             l \in StoredLines}

StoredConfigs == {JoinLines(ls) : ls \in StoredSeqs(MaxStored)}

\* the same configuration with other key material
Rekeyed(file) == [i \in DOMAIN file |-> IF file[i] = KeyA THEN KeyB ELSE file[i]]

\* a production configuration is stored; the non-production configuration
\* is missing, or is the same configuration with other key material
InitGetConfig ==
    /\ active = <<>>
    /\ svc = Idle
    /\ cfg = Idle
    /\ \E stored \in StoredConfigs, other \in BOOLEAN :
         fs = [p \in Paths |->
                 IF p = ProdConfigPath THEN stored
                 ELSE IF p = NonProdConfigPath /\ other THEN Rekeyed(stored)
                 ELSE NoFile]
    /\ NoUi

GetConfigCall ==
    /\ svc = Idle
    /\ \E env \in Environments :
         LET r == GetConfig(fs, env)
         IN  svc' = [op |-> "GetConfig", env |-> env, text |-> r.text, err |-> r.err]
    /\ UNCHANGED <<active, cfgVars, uiVars>>

NextGetConfig == GetConfigCall \/ Return

SpecGetConfig == InitGetConfig /\ [][NextGetConfig]_vars

---------------------------------------------------------------------------
(* Installation and merge as a state machine over the configuration        *)
(* directory: the templates may be missing, damaged or installed.          *)

MaxSetupLines == 2

\* lines of a user's file that contain "Endpoint" without giving one: the
\* key and the value written without blanks (one field), and a comment
LEndpointBare == <<"Endpoint", "=", NonProdEndpoint>>
LEndpointComment == <<"#", SP, "Endpoint">>
\* a line that does not fit the buffer of a Scanner
LLong == <<"#", SP, LongRun>>
SetupLines == {LDNS, LEndpointProd, LEndpointNonProd, LEndpointOther,
               LEndpointBare, LEndpointComment, LLong}

RECURSIVE SetupSeqs(_)
SetupSeqs(n) ==
    IF n = 0 THEN {<<>>}
    ELSE LET shorter == SetupSeqs(n - 1)
         IN  shorter \cup {Append(ls, l) : ls \in {x \in shorter : Len(x) = n - 1},
                                             l \in SetupLines}

SetupUserFiles == {JoinLines(ls) : ls \in SetupSeqs(MaxSetupLines)}

\* a file without its lines that start with key
DropLines(content, key) ==
    JoinLines(SelectSeq(ScanLines(content), LAMBDA l : ~HasPrefix(l, <<key>>)))

\* what may be stored at the path of a template: nothing, the template, an
\* empty file, the template without its DNS or without its AllowedIPs line
TemplateVariants(content) ==
    {NoFile, content, <<>>, DropLines(content, "DNS"), DropLines(content, "AllowedIPs")}

\* a production configuration merged earlier
EarlierMerged ==
    MergeLines(<<>>, ScanLines(SampleProdUser), TemplateDNSLine, ProdAllowedIPsLine)

\* a production configuration has been merged earlier; the templates are in
\* any condition; the user has a file of their own (or none)
InitSetup ==
    /\ active = <<>>
    /\ svc = Idle
    /\ cfg = Idle
    /\ NoUi
    /\ \E prod \in TemplateVariants(prodTemplateContent),
          nonprod \in {NoFile, nonprodTemplateContent},
          u \in SetupUserFiles \cup {NoFile} :
         fs = [p \in Paths |->
                 IF p = ProdTemplatePath THEN prod
                 ELSE IF p = NonProdTemplatePath THEN nonprod
                 ELSE IF p = ProdConfigPath THEN EarlierMerged
                 ELSE IF p = UserPath THEN u
                 ELSE NoFile]

InstallTemplatesCall ==
    /\ cfg = Idle
    /\ \E fault \in InstallFaults :
         LET r == InstallTemplates(fs, fault)
         IN  /\ fs' = r.files
             /\ cfg' = [op |-> "install", fault |-> fault, err |-> r.err, pre |-> fs]
    /\ UNCHANGED <<vpnVars, uiVars>>

\* the function of the command updateConfig(svc, configPath) of main.go: it
\* calls UpdateConfig and returns the completion message
UpdateConfigCommand ==
    /\ cfg = Idle
    /\ \E configPath \in {UserPath, ProdConfigPath}, fault \in Faults, goos \in GOOS :
         LET r == UpdateConfig(fs, configPath, fault, goos)
         IN  /\ fs' = r.files
             /\ cfg' = [op |-> "updateConfig", path |-> configPath, fault |-> fault,
                        goos |-> goos,
                        raw |-> ProcessUserConfig(fs, configPath, fault).err,
                        msg |-> vpnOperationMsg(<<"update_config">>, r.err),
                        pre |-> fs]
    /\ UNCHANGED <<vpnVars, uiVars>>

NextSetup ==
    InstallTemplatesCall \/ ProcessUserConfigCall \/ UpdateConfigCommand \/ ReturnCfg

SpecSetup == InitSetup /\ [][NextSetup]_vars

---------------------------------------------------------------------------
(* CheckSetupStatus and RunSetup *)

\* the names of the files in ConfigDir
ProdTemplate == "julo-prod-template.conf"
NonProdTemplate == "julo-nonprod-template.conf"
ProdConfig == "julo-prod.conf"
NonProdConfig == "julo-nonprod.conf"

filesToCheck == <<ProdTemplate, NonProdTemplate, ProdConfig, NonProdConfig>>

\* filepath.Join(ConfigDir, filename)
JoinConfigDir(filename) ==
    IF filename = ProdTemplate THEN ProdTemplatePath
    ELSE IF filename = NonProdTemplate THEN NonProdTemplatePath
    ELSE IF filename = ProdConfig THEN ProdConfigPath
    ELSE NonProdConfigPath

\* exec.Command("sudo", "test", "-f", filepath).Run() returns nil: sudo has
\* run the test (refused holds the files for which it has not) and the test
\* has found a file
SudoTest(files, refused, filename) ==
    filename \notin refused /\ files[JoinConfigDir(filename)] # NoFile

\* &SetupStatus{MissingFiles: []string{}}
NewSetupStatus ==
    [NeedsSetup |-> FALSE, HasTemplates |-> FALSE, HasProdConfig |-> FALSE,
     HasNonProdConfig |-> FALSE, MissingFiles |-> <<>>]

\* the body of the loop over filesToCheck
CheckFile(status, filename, found) ==
    IF ~found THEN [status EXCEPT !.MissingFiles = Append(@, filename)]
    ELSE IF filename \in {ProdTemplate, NonProdTemplate}
    THEN [status EXCEPT !.HasTemplates = TRUE]
    ELSE IF filename = ProdConfig THEN [status EXCEPT !.HasProdConfig = TRUE]
    ELSE [status EXCEPT !.HasNonProdConfig = TRUE]

RECURSIVE CheckFiles(_, _, _, _)
CheckFiles(status, files, refused, i) ==
    IF i > Len(filesToCheck) THEN status
    ELSE CheckFiles(CheckFile(status, filesToCheck[i],
                              SudoTest(files, refused, filesToCheck[i])),
                    files, refused, i + 1)

\* mutant: one template is enough for HasTemplates
FixStatus_EitherTemplate(status) ==
    [status EXCEPT
       !.HasTemplates = ProdTemplate \notin Range(status.MissingFiles)
                            \/ NonProdTemplate \notin Range(status.MissingFiles),
       !.NeedsSetup = ~(ProdTemplate \notin Range(status.MissingFiles)
                            \/ NonProdTemplate \notin Range(status.MissingFiles))
                      \/ (~status.HasProdConfig /\ ~status.HasNonProdConfig)]

\* the end of checkSetupStatusWithSudo: HasTemplates from MissingFiles, then
\* NeedsSetup
FixStatus(status) ==
    [status EXCEPT
       !.HasTemplates = ProdTemplate \notin Range(status.MissingFiles)
                            /\ NonProdTemplate \notin Range(status.MissingFiles),
       !.NeedsSetup = ~(ProdTemplate \notin Range(status.MissingFiles)
                            /\ NonProdTemplate \notin Range(status.MissingFiles))
                      \/ (~status.HasProdConfig /\ ~status.HasNonProdConfig)]

CheckSetupStatus(files, refused) ==
    FixStatus(CheckFiles(NewSetupStatus, files, refused, 1))

\* a call RunSetup has made, and the error it returned
SetupCall(name, path, err) == [call |-> name, path |-> path, err |-> err]

\* a step RunSetup skips
Skipped(files) == [err |-> "nil", files |-> files]

\* RunSetup from the return of the ProcessUserConfig of nonprodConfigPath
RunSetupNonProd(n, calls, nonprodConfigPath) ==
    [err |-> IF n.err # "nil" THEN "failed to process non-production config" ELSE "nil",
     cause |-> n.err,
     files |-> n.files,
     calls |-> IF nonprodConfigPath = "" THEN calls
               ELSE Append(calls, SetupCall("ProcessUserConfig", nonprodConfigPath, n.err))]

\* mutant: the failure of the production configuration does not end the run
RunSetupProd_GoesOn(p, calls, prodConfigPath, nonprodConfigPath, f) ==
    RunSetupNonProd(IF nonprodConfigPath = "" THEN Skipped(p.files)
                    ELSE ProcessUserConfig(p.files, nonprodConfigPath, f.nonprod),
                    IF prodConfigPath = "" THEN calls
                    ELSE Append(calls, SetupCall("ProcessUserConfig", prodConfigPath, p.err)),
                    nonprodConfigPath)

\* RunSetup from the return of the ProcessUserConfig of prodConfigPath
RunSetupProd(p, calls, prodConfigPath, nonprodConfigPath, f) ==
    IF p.err # "nil"
    THEN [err |-> "failed to process production config", cause |-> p.err,
          files |-> p.files,
          calls |-> Append(calls, SetupCall("ProcessUserConfig", prodConfigPath, p.err))]
    ELSE RunSetupNonProd(IF nonprodConfigPath = "" THEN Skipped(p.files)
                         ELSE ProcessUserConfig(p.files, nonprodConfigPath, f.nonprod),
                         IF prodConfigPath = "" THEN calls
                         ELSE Append(calls,
                                     SetupCall("ProcessUserConfig", prodConfigPath, "nil")),
                         nonprodConfigPath)

\* RunSetup from the return of InstallTemplates
RunSetupInstalled(i, prodConfigPath, nonprodConfigPath, f) ==
    IF i.err # "nil"
    THEN [err |-> "failed to install templates", cause |-> f.install, files |-> i.files,
          calls |-> <<SetupCall("InstallTemplates", "", i.err)>>]
    ELSE RunSetupProd(IF prodConfigPath = "" THEN Skipped(i.files)
                      ELSE ProcessUserConfig(i.files, prodConfigPath, f.prod),
                      <<SetupCall("InstallTemplates", "", "nil")>>,
                      prodConfigPath, nonprodConfigPath, f)

\* ConfigProcessor.RunSetup; f holds the failures of the three steps
RunSetup(files, prodConfigPath, nonprodConfigPath, f) ==
    RunSetupInstalled(InstallTemplates(files, f.install),
                      prodConfigPath, nonprodConfigPath, f)

\* err.Error() of the errors of RunSetup: the message of the step and the
\* text of its cause
SetupErrorText(err, cause, goos) ==
    IF cause \in {"mkdir_denied", "prod_create_denied", "nonprod_create_denied"}
    THEN <<err, "open", ":", DeniedText(goos)>>
    ELSE <<err>> \o ErrorText(cause, goos)

\* getSetupPermissionErrorMessage
getSetupPermissionErrorMessage(goos) ==
    IF goos = "windows"
    THEN "insufficient permissions to install templates and config files: run as Administrator"
    ELSE "insufficient permissions to install templates and config files: sudo tui-wireguard-vpn"

\* RunSetupDirectly from the return of RunSetup
RunSetupDirectlyFrom(r, goos) ==
    IF r.err # "nil"
       /\ \E t \in {"permission denied", "operation not permitted", "access is denied"} :
              Contains(SetupErrorText(r.err, r.cause, goos), <<t>>)
    THEN [r EXCEPT !.err = getSetupPermissionErrorMessage(goos)]
    ELSE r

RunSetupDirectly(files, prodConfigPath, nonprodConfigPath, f, goos) ==
    RunSetupDirectlyFrom(RunSetup(files, prodConfigPath, nonprodConfigPath, f), goos)

---------------------------------------------------------------------------
(* First start: the status check and the setup run as a state machine over *)
(* the configuration directory and two files of the user.                  *)

\* the second file of the user
NonProdUserPath == "/home/user/wg-nonprod.conf"
InstallPaths == Paths \cup {NonProdUserPath}

\* files a user may hold: for either environment, for neither, and one whose
\* second line does not fit the buffer of a Scanner
SampleNonProdUser == FileOf(<<LKey, LEndpointNonProd, LAllowedIPs>>, TRUE)
OtherProdUser == FileOf(<<LKeyCR, LEndpointProd>>, TRUE)
SampleOtherUser == FileOf(<<LKey, LEndpointOther>>, TRUE)
LongProdUser == JoinLines(<<LEndpointProd, LLong>>)
InstallUserFiles ==
    {NoFile, SampleProdUser, SampleNonProdUser, OtherProdUser, SampleOtherUser,
     LongProdUser}

\* the failures of the three steps of RunSetup; a run ends at its first
\* failure, so one step fails at most
SetupFaults ==
    {[install |-> i, prod |-> "none", nonprod |-> "none"] : i \in InstallFaults}
    \cup {[install |-> "none", prod |-> p, nonprod |-> "none"] : p \in Faults}
    \cup {[install |-> "none", prod |-> "none", nonprod |-> n] : n \in Faults}

\* the configuration directory before, during or after a setup; the user
\* holds up to two files
InitInstall ==
    /\ active = <<>>
    /\ svc = Idle
    /\ cfg = Idle
    /\ NoUi
    /\ \E prod \in {NoFile, prodTemplateContent},
          nonprod \in {NoFile, nonprodTemplateContent},
          merged \in {NoFile, EarlierMerged},
          u \in InstallUserFiles, v \in InstallUserFiles :
         fs = [p \in InstallPaths |->
                 IF p = ProdTemplatePath THEN prod
                 ELSE IF p = NonProdTemplatePath THEN nonprod
                 ELSE IF p = ProdConfigPath THEN merged
                 ELSE IF p = UserPath THEN u
                 ELSE IF p = NonProdUserPath THEN v
                 ELSE NoFile]

CheckSetupStatusCall ==
    /\ cfg = Idle
    /\ \E refused \in SUBSET Range(filesToCheck) :
         cfg' = [op |-> "checkSetupStatus", refused |-> refused,
                 status |-> CheckSetupStatus(fs, refused), pre |-> fs]
    /\ UNCHANGED <<fs, vpnVars, uiVars>>

\* the record of a call of RunSetupDirectly: err is what RunSetup returned,
\* msg what RunSetupDirectly made of it
RunSetupRecord(r, prodConfigPath, nonprodConfigPath, f, goos, pre) ==
    [op |-> "runSetup", prodPath |-> prodConfigPath, nonprodPath |-> nonprodConfigPath,
     faults |-> f, goos |-> goos, err |-> r.err, cause |-> r.cause, calls |-> r.calls,
     msg |-> RunSetupDirectlyFrom(r, goos).err, pre |-> pre]

RunSetupCall ==
    /\ cfg = Idle
    /\ \E prodConfigPath \in {"", UserPath, NonProdUserPath},
          nonprodConfigPath \in {"", UserPath, NonProdUserPath},
          f \in SetupFaults, goos \in GOOS :
         \E r \in {RunSetup(fs, prodConfigPath, nonprodConfigPath, f)} :
            /\ fs' = r.files
            /\ cfg' = RunSetupRecord(r, prodConfigPath, nonprodConfigPath, f, goos, fs)
    /\ UNCHANGED <<vpnVars, uiVars>>

NextInstall == CheckSetupStatusCall \/ RunSetupCall \/ ReturnCfg

SpecInstall == InitInstall /\ [][NextInstall]_vars

---------------------------------------------------------------------------
(* The file browser of the update model and of the setup model *)

\* a directory is the sequence of the names that lead to it from the root
RootDir == <<>>
HomeParent == <<"home">>
HomeDir == <<"home", "user">>
PrivateDir == <<"home", "user", "private">>
CacheDir == <<"home", "user", ".cache">>
BigDir == <<"home", "user", "big">>

\* the plain files of BigDir: more of them than a viewport shows
BigNames ==
    <<"n01", "n02", "n03", "n04", "n05", "n06", "n07", "n08", "n09", "n10",
      "n11", "n12", "n13", "n14", "n15", "n16", "n17">>

\* the names in the order of Go's string comparison
Alphabetical ==
    <<"..", ".cache", "big", "home">> \o BigNames
        \o <<"notes.txt", "private", "user", "wg-nonprod.conf", "wg.conf">>

\* the names that end in ".conf" once lowered
ConfNames == {"wg.conf", "wg-nonprod.conf"}
\* the names that begin with "."
DotNames == {"..", ".cache"}

\* filepath.Dir, filepath.Join, and the text of a path
Dir(dir) == IF dir = <<>> THEN <<>> ELSE SubSeq(dir, 1, Len(dir) - 1)
RECURSIVE PathText(_)
PathText(dir) == IF dir = <<>> THEN "" ELSE "/" \o Head(dir) \o PathText(Tail(dir))

Entry(name, isDir) == [name |-> name, isDir |-> isDir]

\* the directories of a directory, the same in every run
SubDirs(dir) ==
    IF dir = RootDir THEN {"home"}
    ELSE IF dir = HomeParent THEN {"user"}
    ELSE IF dir = HomeDir THEN {".cache", "big", "private"}
    ELSE {}

\* the names plain files bear
FileNames == Range(BigNames) \cup {"notes.txt", "wg-nonprod.conf", "wg.conf"}

\* file.Readdir(-1) of a directory that os.Open opens: its directories and
\* the files the file system holds in it
Readdir(files, dir) ==
    {Entry(n, TRUE) : n \in SubDirs(dir)}
    \cup {Entry(n, FALSE) :
            n \in {x \in FileNames :
                      /\ PathText(Append(dir, x)) \in DOMAIN files
                      /\ files[PathText(Append(dir, x))] # NoFile}}

\* os.Open(dir) succeeds: the directory exists and may be read; PrivateDir
\* exists and may not
CanOpen(dir) == dir \in {RootDir, HomeParent, HomeDir, CacheDir, BigDir}

RankOf(name) == CHOOSE i \in 1..Len(Alphabetical) : Alphabetical[i] = name

\* the less function of sort.Slice: ".." first, directories before files,
\* then by name
EntryLess(a, b) ==
    IF a.name = ".." THEN TRUE
    ELSE IF b.name = ".." THEN FALSE
    ELSE IF a.isDir /\ ~b.isDir THEN TRUE
    ELSE IF ~a.isDir /\ b.isDir THEN FALSE
    ELSE RankOf(a.name) < RankOf(b.name)

RECURSIVE SortEntries(_)
SortFrom(S, first) == <<first>> \o SortEntries(S \ {first})
SortEntries(S) ==
    IF S = {} THEN <<>>
    ELSE SortFrom(S, CHOOSE e \in S : \A o \in S \ {e} : EntryLess(e, o))

\* the list loadDirectory builds: the entries read, without the hidden ones
\* unless showHidden, with ".." outside the root, sorted
ListingOf(files, dir, showHidden) ==
    SortEntries({e \in Readdir(files, dir) : showHidden \/ e.name \notin DotNames}
                    \cup (IF dir # RootDir THEN {Entry("..", TRUE)} ELSE {}))

\* loadDirectory: on an error of os.Open or Readdir the model is left as it
\* is; otherwise the list is replaced and the cursor and viewport are reset
loadDirectory(mm, files) ==
    IF ~CanOpen(mm.currentDir) THEN mm
    ELSE [mm EXCEPT !.files = ListingOf(files, mm.currentDir, mm.showHidden),
                    !.selectedIndex = 0, !.viewportStart = 0]

\* os.Getwd() and os.Getenv("HOME") of the session
Getwd == HomeDir
HOME == HomeDir

\* the directory depth up to which the browser is followed
MaxDepth == 3

\* the entry under the cursor
selectedFile(mm) == mm.files[mm.selectedIndex + 1]

\* case "up", "k" in the browser
selectUp(mm) ==
    IF mm.selectedIndex > 0
    THEN [mm EXCEPT !.selectedIndex = @ - 1,
                    !.viewportStart =
                        IF mm.selectedIndex - 1 < @ THEN mm.selectedIndex - 1 ELSE @]
    ELSE mm

\* mutant: the viewport does not follow the cursor down
selectDown_NoScroll(mm) ==
    IF mm.selectedIndex < Len(mm.files) - 1
    THEN [mm EXCEPT !.selectedIndex = @ + 1]
    ELSE mm

\* case "down", "j" in the browser
selectDown(mm) ==
    IF mm.selectedIndex < Len(mm.files) - 1
    THEN [mm EXCEPT !.selectedIndex = @ + 1,
                    !.viewportStart =
                        IF mm.selectedIndex + 1 >= @ + mm.viewportSize
                        THEN mm.selectedIndex + 1 - mm.viewportSize + 1 ELSE @]
    ELSE mm

\* case "pgup", "page_up"
pageUpTo(mm, index) ==
    [mm EXCEPT !.selectedIndex = IF index < 0 THEN 0 ELSE index,
               !.viewportStart = IF index < 0 THEN 0 ELSE index]
pageUp(mm) == pageUpTo(mm, mm.selectedIndex - mm.viewportSize)

\* case "pgdown", "page_down"
pageDownTo(mm, index) ==
    [mm EXCEPT !.selectedIndex = index,
               !.viewportStart =
                   IF index >= @ + mm.viewportSize
                   THEN index - mm.viewportSize + 1 ELSE @]
pageDown(mm) ==
    pageDownTo(mm, IF mm.selectedIndex + mm.viewportSize >= Len(mm.files)
                   THEN Len(mm.files) - 1
                   ELSE mm.selectedIndex + mm.viewportSize)

\* enter on a directory: currentDir is changed first, then loadDirectory is
\* called and its error dropped
enterDirectory(mm, name, files) ==
    loadDirectory([mm EXCEPT !.currentDir =
                       IF name = ".." THEN Dir(@) ELSE Append(@, name)], files)

\* case "h": to the home directory
goHome(mm, files) ==
    IF HOME # <<>> THEN loadDirectory([mm EXCEPT !.currentDir = HOME], files) ELSE mm

\* case "ctrl+h": hidden files on or off
toggleHidden(mm, files) == loadDirectory([mm EXCEPT !.showHidden = ~@], files)

\* NewUpdateModel: the browser of the update panel, loaded at once
NewUpdateModel(files) ==
    loadDirectory([type |-> "UpdateModel", stage |-> 3, configPath |-> "",
                   currentDir |-> Getwd, files |-> <<>>, selectedIndex |-> 0,
                   showHidden |-> TRUE, viewportStart |-> 0,
                   viewportSize |-> 15], files)

\* UpdateModel.Update, case "enter", stage 3
updateEnter(mm, files) ==
    IF Len(mm.files) > 0 /\ mm.selectedIndex < Len(mm.files)
    THEN IF selectedFile(mm).isDir
         THEN enterDirectory(mm, selectedFile(mm).name, files)
         ELSE IF selectedFile(mm).name \in ConfNames
         THEN [mm EXCEPT !.configPath =
                   PathText(Append(mm.currentDir, selectedFile(mm).name))]
         ELSE mm
    ELSE mm

\* UpdateModel.Update on a key, in stage 3, the stage NewUpdateModel
\* starts in and no key leaves
UpdateModelKey(mm, key, files) ==
    IF key \in {"up", "k"} /\ Len(mm.files) > 0 THEN selectUp(mm)
    ELSE IF key \in {"down", "j"} /\ Len(mm.files) > 0 THEN selectDown(mm)
    ELSE IF key \in {"pgup", "page_up"} /\ Len(mm.files) > 0 THEN pageUp(mm)
    ELSE IF key \in {"pgdown", "page_down"} /\ Len(mm.files) > 0 THEN pageDown(mm)
    ELSE IF key = "enter" THEN updateEnter(mm, files)
    ELSE IF key = "h" THEN goHome(mm, files)
    ELSE IF key = "ctrl+h" THEN toggleHidden(mm, files)
    ELSE mm

---------------------------------------------------------------------------
(* The setup wizard *)

\* the key that pastes the path of the user's file into a text field
PasteKey == "[/home/user/wg.conf]"
\* the keys a text field takes as text, and the text of each
RuneKeys == {"1", "q", "k", "j", "h", PasteKey}
RunesOf(key) == IF key = PasteKey THEN UserPath ELSE key
\* the pieces of text that end in ".conf"
ConfTexts == {UserPath}

\* the number of pieces a text field takes, standing for CharLimit
MaxText == 1

\* textinput.New(), and Focus()
NewTextInput == [value |-> <<>>, focus |-> FALSE]
Focus(input) == [input EXCEPT !.focus = TRUE]

\* textinput.Update: a field without focus drops the message; text is put
\* in up to the limit; the other keys of the model leave the value alone
TextInputUpdate(input, key) ==
    IF input.focus /\ key \in RuneKeys /\ Len(input.value) < MaxText
    THEN [input EXCEPT !.value = Append(@, RunesOf(key))]
    ELSE input

\* the text of a value, and strings.HasSuffix(path, ".conf")
RECURSIVE ValueText(_)
ValueText(value) ==
    IF value = <<>> THEN "" ELSE Head(value) \o ValueText(Tail(value))
EndsInConf(value) == value # <<>> /\ value[Len(value)] \in ConfTexts

\* NewSetupModel: the information screen; the directory is not loaded yet
NewSetupModel ==
    [type |-> "SetupModel", stage |-> 0, inputMode |-> 0, configStep |-> 0,
     prodPath |-> "", nonprodPath |-> "",
     inputs |-> <<Focus(NewTextInput), NewTextInput>>,
     currentDir |-> Getwd, files |-> <<>>, selectedIndex |-> 0,
     showHidden |-> TRUE, viewportStart |-> 0, viewportSize |-> 10]

\* what Update returns: the model and the command
Returned(mm, cmd) == [m |-> mm, cmd |-> cmd]

\* handleFileBrowserEnter: the enter key in stage 2
handleFileBrowserEnter(mm, files) ==
    IF Len(mm.files) > 0 /\ mm.selectedIndex < Len(mm.files)
    THEN IF selectedFile(mm).isDir
         THEN Returned(enterDirectory(mm, selectedFile(mm).name, files), "nil")
         ELSE IF selectedFile(mm).name \in ConfNames
         THEN IF mm.configStep = 0
              THEN Returned([mm EXCEPT !.prodPath =
                                 PathText(Append(mm.currentDir, selectedFile(mm).name)),
                                       !.configStep = 1, !.stage = 4,
                                       !.inputMode = 0], "nil")
              ELSE Returned([mm EXCEPT !.nonprodPath =
                                 PathText(Append(mm.currentDir, selectedFile(mm).name))],
                            "exitAndRunSetup")
         ELSE Returned(mm, "nil")
    ELSE Returned(mm, "nil")

\* handleEnterKey
handleEnterKey(mm, files) ==
    IF mm.stage = 0 THEN Returned([mm EXCEPT !.stage = 1], "nil")
    ELSE IF mm.stage = 1
    THEN IF mm.inputMode = 0
         THEN Returned([mm EXCEPT !.stage = 3], "nil")
         ELSE Returned(loadDirectory([mm EXCEPT !.stage = 2], files), "nil")
    ELSE IF mm.stage = 2 THEN handleFileBrowserEnter(mm, files)
    ELSE IF mm.stage = 3
    THEN IF EndsInConf(TrimSpace(mm.inputs[1].value))
         THEN Returned([mm EXCEPT !.prodPath = ValueText(TrimSpace(mm.inputs[1].value)),
                                  !.configStep = 1, !.stage = 4,
                                  !.inputMode = 0], "nil")
         ELSE Returned(mm, "nil")
    ELSE IF mm.stage = 4
    THEN IF mm.inputMode = 0
         THEN Returned([mm EXCEPT !.stage = 5, !.inputs[2] = Focus(@)], "nil")
         ELSE Returned(loadDirectory([mm EXCEPT !.stage = 2], files), "nil")
    ELSE IF mm.stage = 5
    THEN IF EndsInConf(TrimSpace(mm.inputs[2].value))
         THEN Returned([mm EXCEPT !.nonprodPath = ValueText(TrimSpace(mm.inputs[2].value))],
                       "exitAndRunSetup")
         ELSE Returned(mm, "nil")
    ELSE Returned(mm, "nil")

\* the choice screens' toggle
toggleInputMode(mm) ==
    IF mm.stage \in {1, 4} THEN [mm EXCEPT !.inputMode = 1 - @] ELSE mm

\* handleUpKey, handleDownKey, handleTabKey
handleUpKey(mm) ==
    IF mm.stage = 2 /\ Len(mm.files) > 0 THEN selectUp(mm) ELSE toggleInputMode(mm)
handleDownKey(mm) ==
    IF mm.stage = 2 /\ Len(mm.files) > 0 THEN selectDown(mm) ELSE toggleInputMode(mm)
handleTabKey(mm) == toggleInputMode(mm)

\* handleHomeKey, handleToggleHiddenKey
handleHomeKey(mm, files) == IF mm.stage = 2 THEN goHome(mm, files) ELSE mm
handleToggleHiddenKey(mm, files) ==
    IF mm.stage = 2 THEN toggleHidden(mm, files) ELSE mm

\* handleEscKey
handleEscKey(mm) ==
    IF mm.stage = 1 THEN [mm EXCEPT !.stage = 0]
    ELSE IF mm.stage \in {2, 3}
    THEN [mm EXCEPT !.stage = IF mm.configStep = 0 THEN 1 ELSE 4]
    ELSE IF mm.stage = 4
    THEN [mm EXCEPT !.stage = 1, !.configStep = 0, !.prodPath = ""]
    ELSE IF mm.stage = 5 THEN [mm EXCEPT !.stage = 4]
    ELSE mm

\* the index of the text field of the current step
currentInput(mm) == IF mm.configStep = 1 THEN 2 ELSE 1

\* the end of Update: in the text stages the message goes to the text field
forwardKey(mm, key) ==
    IF mm.stage \in {3, 5} /\ mm.inputMode = 0
    THEN [mm EXCEPT !.inputs[currentInput(mm)] = TextInputUpdate(@, key)]
    ELSE mm

\* SetupModel.Update, case tea.KeyMsg
SetupModelKey(mm, key, files) ==
    IF key \in {"ctrl+c", "q"} THEN Returned(mm, "tea.Quit")
    ELSE IF key = "enter" THEN handleEnterKey(mm, files)
    ELSE IF key \in {"up", "k"} THEN Returned(handleUpKey(mm), "nil")
    ELSE IF key \in {"down", "j"} THEN Returned(handleDownKey(mm), "nil")
    ELSE IF key = "tab" THEN Returned(handleTabKey(mm), "nil")
    ELSE IF key = "h" THEN Returned(handleHomeKey(mm, files), "nil")
    ELSE IF key = "ctrl+h" THEN Returned(handleToggleHiddenKey(mm, files), "nil")
    ELSE IF key = "esc" THEN Returned(handleEscKey(mm), "nil")
    ELSE IF key = "1" /\ mm.stage \in {1, 4}
    THEN Returned([mm EXCEPT !.inputMode = 0], "nil")
    ELSE IF key = "2" /\ mm.stage \in {1, 4}
    THEN Returned([mm EXCEPT !.inputMode = 1], "nil")
    ELSE Returned(forwardKey(mm, key), "nil")

---------------------------------------------------------------------------
(* The two models that ask the user for a path, as a state machine over    *)
(* the keys: main runs the setup wizard when setup is needed, and opens    *)
(* the update model in the input panel otherwise.                          *)

\* the directories the browser may name, and the paths it may hand over
SubNames == {".cache", "big", "private"}
BrowsableDirs ==
    {RootDir, HomeParent}
    \cup {HomeDir \o s : s \in UNION {[1..k -> SubNames] : k \in 0..(MaxDepth - 2)}}
BrowsablePaths == {PathText(Append(d, n)) : d \in BrowsableDirs, n \in ConfNames}
\* the paths of the files the browser lists
ListedPaths ==
    {PathText(Append(d, n)) : d \in {HomeDir, BigDir}, n \in FileNames \ ConfNames}

\* the paths a text field may hold
TypedPaths ==
    {ValueText(v) :
        v \in UNION {[1..k -> {RunesOf(key) : key \in RuneKeys}] : k \in 0..MaxText}}
WizardPaths == InstallPaths \cup BrowsablePaths \cup TypedPaths \cup ListedPaths

SetupKeys ==
    {"ctrl+c", "q", "enter", "up", "k", "down", "j", "tab", "h", "ctrl+h", "esc",
     "1", PasteKey}
BrowserKeys == {"up", "k", "down", "j", "pgup", "pgdown", "enter", "h", "ctrl+h"}

NoSetupFault == [install |-> "none", prod |-> "none", nonprod |-> "none"]

\* a file of the user that is no configuration
OtherFile == <<"note">>

\* the file system of a new installation: the user holds a file for each
\* environment, notes, and the files of BigDir named in big
UserFilesWith(big) ==
    [p \in WizardPaths |->
       IF p = UserPath THEN SampleProdUser
       ELSE IF p = NonProdUserPath THEN SampleNonProdUser
       ELSE IF p = PathText(Append(HomeDir, "notes.txt")) THEN OtherFile
       ELSE IF p \in {PathText(Append(BigDir, n)) : n \in big} THEN OtherFile
       ELSE NoFile]

InitPathsWith(big) ==
    /\ active = <<>>
    /\ svc = Idle
    /\ cfg = Idle
    /\ fs = UserFilesWith(big)
    /\ m \in {NewSetupModel, NewUpdateModel(fs)}
    /\ tasks = <<>>
    /\ quit = FALSE
    /\ upd = NoUpdate

\* a key reaches the wizard: Update runs, and the program takes the command;
\* further commands of exitAndRunSetup add nothing to one that is pending,
\* as the first message ends the program
SetupKeyPress(key) ==
    /\ m.type = "SetupModel"
    /\ ~quit
    /\ \E r \in {SetupModelKey(m, key, fs)} :
         /\ Len(r.m.currentDir) <= MaxDepth
         /\ m' = r.m
         /\ quit' = (r.cmd = "tea.Quit")
         /\ tasks' = IF r.cmd = "exitAndRunSetup" THEN <<"exitAndRunSetup">> ELSE tasks
    /\ UNCHANGED <<vpnVars, cfgVars, upd>>

\* the command of exitAndRunSetup runs and Update takes its message: the
\* command reads the paths of the model through its pointer, the model gets
\* them back from the ExitAndSetupMsg, and the program quits
ExitAndSetup ==
    /\ m.type = "SetupModel"
    /\ ~quit
    /\ tasks # <<>>
    /\ tasks' = <<>>
    /\ quit' = TRUE
    /\ UNCHANGED <<vpnVars, cfgVars, m, upd>>

\* main after the wizard's program has ended: GetConfigPaths, and
\* RunSetupDirectly if either path is set
MainAfterWizard ==
    /\ m.type = "SetupModel"
    /\ quit
    /\ cfg = Idle
    /\ IF m.prodPath # "" \/ m.nonprodPath # ""
       THEN \E r \in {RunSetup(fs, m.prodPath, m.nonprodPath, NoSetupFault)} :
               /\ fs' = r.files
               /\ cfg' = RunSetupRecord(r, m.prodPath, m.nonprodPath, NoSetupFault,
                                        "linux", fs)
       ELSE /\ fs' = fs
            /\ cfg' = [op |-> "exit"]
    /\ UNCHANGED <<vpnVars, uiVars>>

\* a key reaches the update model in the input panel; when the model then
\* reports a path, main takes it and drops the model, and the next opening
\* of the panel makes a new one
UpdateKeyPress(key) ==
    /\ m.type = "UpdateModel"
    /\ \E r \in {UpdateModelKey(m, key, fs)} :
         /\ Len(r.currentDir) <= MaxDepth
         /\ m' = IF r.configPath # "" THEN NewUpdateModel(fs) ELSE r
         /\ upd' = [Handled(KeyMsg, NoCmd) EXCEPT !.configPath = r.configPath]
    /\ UNCHANGED <<vpnVars, cfgVars, tasks, quit>>

\* the wizard with its text fields, in a home directory of few files
InitWizard == InitPathsWith({}) /\ m.type = "SetupModel"
NextWizard ==
    \/ \E key \in SetupKeys : SetupKeyPress(key)
    \/ ExitAndSetup
    \/ MainAfterWizard
SpecWizard == InitWizard /\ [][NextWizard]_vars

\* the two browsers over a directory longer than a viewport
InitPaths == InitPathsWith(Range(BigNames))
NextPaths ==
    \/ \E key \in BrowserKeys \cup {"esc", "tab", "q"} : SetupKeyPress(key)
    \/ ExitAndSetup
    \/ MainAfterWizard
    \/ \E key \in BrowserKeys : UpdateKeyPress(key)
SpecPaths == InitPaths /\ [][NextPaths]_vars

---------------------------------------------------------------------------
(* The main model as a state machine.  The program dispatches every        *)
(* command Update returns; the commands in flight finish in any order.  A  *)
(* command's completion is one step: its function runs the service call,   *)
(* and Update consumes the message it returns.                             *)

MaxInFlight == 2

InFlight == Len(tasks)

RemoveAt(s, i) == SubSeq(s, 1, i - 1) \o SubSeq(s, i + 1, Len(s))

\* the ways each service call can go, by the listing it starts from
UiListings == Listings({JuloProd, JuloNonprod})
ProbeRunsFrom == [act \in UiListings |-> ProbeRuns(act)]
StopRunsFrom == [act \in UiListings |-> StopRuns(act)]
StartRunsFrom == [act \in UiListings |-> [env \in Environments |-> StartRuns(act, env)]]

\* the files when the main model starts: the templates, the merged production
\* configuration of the user's file, and the user's file
UiInitialFiles ==
    [p \in Paths |->
        IF p = ProdTemplatePath THEN prodTemplateContent
        ELSE IF p = NonProdTemplatePath THEN nonprodTemplateContent
        ELSE IF p = ProdConfigPath
        THEN MergeLines(<<>>, ScanLines(SampleProdUser), TemplateDNSLine,
                        ProdAllowedIPsLine)
        ELSE IF p = UserPath THEN SampleProdUser
        ELSE NoFile]

\* the files the user picks in the input model: their own file, or the
\* merged configuration in the system directory
UiPaths == {UserPath, ProdConfigPath}

\* the files as the merges of the picked files can leave them, and the ways
\* each merge can go, by the files it starts from
RECURSIVE FilesAfterMerges(_)
FilesAfterMerges(S) ==
    LET T == S \cup {UpdateConfig(f, p, fault, goos).files :
                        f \in S, p \in UiPaths, fault \in Faults, goos \in GOOS}
    IN  IF T = S THEN S ELSE FilesAfterMerges(T)
UiFiles == FilesAfterMerges({UiInitialFiles})
MergeRunsFrom ==
    [f \in UiFiles |-> [p \in UiPaths |-> [fault \in Faults |-> [goos \in GOOS |->
        UpdateConfig(f, p, fault, goos)]]]]

\* main starts the main model only when CheckSetupStatus finds both templates
\* and at least one merged configuration; Init's command is dispatched
InitUI ==
    /\ active \in Listings({JuloProd, JuloNonprod})
    /\ svc = Idle
    /\ cfg = Idle
    /\ fs = UiInitialFiles
    /\ m = initialModel
    /\ tasks = <<ModelInit>>
    /\ quit = FALSE
    /\ upd = NoUpdate

\* the program takes the command Update has returned; running holds the
\* commands still in flight
Dispatch(running, cmd) ==
    IF cmd = QuitCmd
    THEN /\ quit' = TRUE
         /\ tasks' = running
    ELSE IF IsTask(cmd)
    THEN /\ Len(running) < MaxInFlight
         /\ quit' = quit
         /\ tasks' = Append(running, cmd)
    ELSE /\ quit' = quit
         /\ tasks' = running

\* the picked file exists
Selectable == {p \in UiPaths : fs[p] # NoFile}

\* UpdateModel.Update sets configPath on "enter" alone, and only when main's
\* Update hands it the key
KeyPress(key) ==
    /\ ~quit
    /\ \E configPath \in (IF key = "enter" /\ InputModelUpdated(m, key)
                          THEN {""} \cup Selectable ELSE {""}) :
         LET r == UpdateKey(m, key, configPath)
         IN  /\ m' = r.m
             /\ upd' = [Handled(KeyMsg, r.cmd) EXCEPT !.configPath = configPath]
             /\ Dispatch(tasks, r.cmd)
    /\ UNCHANGED <<vpnVars, cfgVars>>

KeyQuit == \E key \in {"ctrl+c", "q"} : KeyPress(key)
KeyTab == KeyPress("tab")
KeyEsc == KeyPress("esc")
KeyUp == \E key \in {"up", "k"} : KeyPress(key)
KeyDown == \E key \in {"down", "j"} : KeyPress(key)
KeyEnter == \E key \in {"enter", " "} : KeyPress(key)
\* a key Update has no case for
KeyOther == KeyPress("x")

\* Update consumes the completion message of the command at position i
Consume(i, msg) ==
    LET r == UpdateMsg(m, msg)
    IN  /\ m' = r.m
        /\ upd' = Handled(msg, r.cmd)
        /\ Dispatch(RemoveAt(tasks, i), r.cmd)

\* the command of checkVPNStatus runs and its vpnStatusMsg is consumed
ProbeCompletes ==
    /\ ~quit
    /\ \E i \in 1..Len(tasks) :
         /\ tasks[i].cmd = "checkVPNStatus"
         /\ \E r \in ProbeRunsFrom[active] :
              /\ active' = r.act
              /\ Consume(i, vpnStatusMsg(r.status, r.err))
    /\ UNCHANGED <<svc, cfgVars>>

\* the command of startVPN runs and its vpnOperationMsg is consumed
StartCompletes ==
    /\ ~quit
    /\ \E i \in 1..Len(tasks) :
         /\ tasks[i].cmd = "startVPN"
         /\ \E r \in StartRunsFrom[active][tasks[i].env] :
              /\ active' = r.act
              /\ Consume(i, vpnOperationMsg(<<"start_">> \o tasks[i].env, r.err))
    /\ UNCHANGED <<svc, cfgVars>>

\* the command of stopVPN runs and its vpnOperationMsg is consumed
StopCompletes ==
    /\ ~quit
    /\ \E i \in 1..Len(tasks) :
         /\ tasks[i].cmd = "stopVPN"
         /\ \E r \in StopRunsFrom[active] :
              /\ active' = r.act
              /\ Consume(i, vpnOperationMsg(<<"stop">>, r.err))
    /\ UNCHANGED <<svc, cfgVars>>

\* the command of updateConfig runs and its vpnOperationMsg is consumed
MergeCompletes ==
    /\ ~quit
    /\ \E i \in 1..Len(tasks) :
         /\ tasks[i].cmd = "updateConfig"
         /\ \E fault \in Faults, goos \in GOOS :
              LET r == MergeRunsFrom[fs][tasks[i].path][fault][goos]
              IN  /\ fs' = r.files
                  /\ Consume(i, vpnOperationMsg(<<"update_config">>, r.err))
    /\ UNCHANGED <<vpnVars, cfg>>

NextUI ==
    \/ KeyQuit \/ KeyTab \/ KeyEsc \/ KeyUp \/ KeyDown \/ KeyEnter \/ KeyOther
    \/ ProbeCompletes \/ StartCompletes \/ StopCompletes \/ MergeCompletes

SpecUI == InitUI /\ [][NextUI]_vars

\* The program runs every command in a goroutine of its own and hands the
\* message it returns to Update: a command whose external call returns is
\* completed, whatever the user does.
Completes == ProbeCompletes \/ StartCompletes \/ StopCompletes \/ MergeCompletes
SpecUILive == SpecUI /\ WF_vars(Completes)

---------------------------------------------------------------------------
(* Properties of the service *)

ManagedSeq(act) == SelectSeq(act, LAMBDA n : HasPrefix(n, JuloPrefix))
Managed(act) == Range(ManagedSeq(act))

IsDown(c) == c.cmd = "wg-quick down"
IsUp(c) == c.cmd = "wg-quick up"
IsQuery(c) == c.cmd = "wg show"
DownArgs(calls) ==
    LET downs == SelectSeq(calls, IsDown)
    IN  [i \in 1..Len(downs) |-> downs[i].arg]

\* C2: whenever the probe of Start reports a connected session, a bring-down
\* call for the probed interface is issued, and every bring-up call of the
\* Start comes after a completed bring-down of the probed interface.
C2_StopBeforeStart ==
    (svc.op = "start" /\ svc.probes[1].Connected) =>
        /\ \E i \in 1..Len(svc.calls) :
               IsDown(svc.calls[i]) /\ svc.calls[i].arg = svc.probes[1].Interface
        /\ \A j \in 1..Len(svc.calls) :
               IsUp(svc.calls[j]) =>
                   \E i \in 1..(j - 1) :
                       svc.calls[i] = Call("wg-quick down", svc.probes[1].Interface, "ok")

\* C3: when the Stop that Start performs fails, Start returns the error caused
\* by the stop failure and issues no bring-up call.
C3_StopFailureAbortsStart ==
    (svc.op = "start" /\ svc.stopErr \notin {"nil", "not_called"}) =>
        /\ svc.err = "stop_failed"
        /\ \A i \in 1..Len(svc.calls) : ~IsUp(svc.calls[i])

C3_Witness ==
    /\ svc.op = "start"
    /\ svc.stopErr = "down_failed"
    /\ svc.err = "stop_failed"
    /\ svc.probes[1].Environment # svc.env

\* C4: after Start(env) returns success exactly one managed interface is
\* active and it is julo-<env>.
C4_OneManagedAfterStart ==
    (svc.op = "start" /\ svc.err = "nil") => Managed(active) = {ConfigName(svc.env)}

\* C5 as stated: Stop with a disconnected probe result returns success and the
\* call issues no bring-down at all.
C5_NoBringDownAtAll ==
    (svc.op = "stop" /\ ~svc.probes[1].Connected) =>
        /\ svc.err = "nil"
        /\ \A i \in 1..Len(svc.calls) : ~IsDown(svc.calls[i])

\* C5 amended: Stop with a disconnected probe result returns success and
\* issues no bring-down of its own: every bring-down of the call is one the
\* probe's reconciliation issued, for a managed interface listed after the
\* first, and the first listed managed interface is left as it was.
C5_StopIssuesNoBringDown ==
    (svc.op = "stop" /\ ~svc.probes[1].Connected) =>
        /\ svc.err = "nil"
        /\ \A i \in 1..Len(svc.calls) :
               IsDown(svc.calls[i]) => svc.calls[i].arg \in Range(Tail(ManagedSeq(svc.pre)))
        /\ ManagedSeq(svc.pre) # <<>> =>
               /\ ManagedSeq(active) # <<>>
               /\ ManagedSeq(active)[1] = ManagedSeq(svc.pre)[1]

C5_Witness ==
    /\ svc.op = "stop"
    /\ ~svc.probes[1].Connected
    /\ svc.err = "nil"
    /\ \E i \in 1..Len(svc.calls) : IsDown(svc.calls[i])

ListsSeveralManaged ==
    /\ svc.op = "probe"
    /\ svc.calls[1].res = "ok"
    /\ Len(ManagedSeq(svc.pre)) >= 2

\* C6 as stated: a dump listing two or more managed interfaces gives one
\* connected session named after the first, and a bring-down call for every
\* other listed managed interface and for none else.
C6_ReconcileAlwaysConnected ==
    ListsSeveralManaged =>
        /\ svc.probes[1].Connected
        /\ svc.probes[1].Interface = ManagedSeq(svc.pre)[1]
        /\ DownArgs(svc.calls) = Tail(ManagedSeq(svc.pre))

\* C6 amended: a dump listing two or more managed interfaces gives a
\* bring-down call for every other listed managed interface, in order, and for
\* none else, whether or not those calls fail; the result is one connected
\* session named after the first listed interface, unless the query for that
\* interface fails, and then it is the disconnected session.
C6_Reconcile ==
    ListsSeveralManaged =>
        LET last == svc.calls[Len(svc.calls)]
        IN  /\ DownArgs(svc.calls) = Tail(ManagedSeq(svc.pre))
            /\ last = Call("wg show", ManagedSeq(svc.pre)[1], last.res)
            /\ IF last.res = "fail"
               THEN svc.probes[1] = Disconnected
               ELSE /\ svc.probes[1].Connected
                    /\ svc.probes[1].Interface = ManagedSeq(svc.pre)[1]
            /\ svc.err = "nil"

C6_Witness ==
    /\ ListsSeveralManaged
    /\ Len(ManagedSeq(svc.pre)) = 3
    /\ svc.probes[1].Connected
    /\ \E i \in 1..Len(svc.calls) : IsDown(svc.calls[i]) /\ svc.calls[i].res = "fail"
    /\ \E i \in 1..Len(svc.calls) : IsDown(svc.calls[i]) /\ svc.calls[i].res = "ok"

\* C7: after probe returns at most one managed interface is active.
C7_AtMostOneManagedAfterProbe ==
    svc.op = "probe" => Cardinality(Managed(active)) <= 1

\* C8: probe never returns an error, it returns a session for every outcome
\* of the status queries, and the session is disconnected whenever a status
\* query failed.
C8_ProbeNeverFails ==
    svc.op = "probe" =>
        /\ svc.err = "nil"
        /\ svc.probes[1].Connected \in BOOLEAN
        /\ (\E i \in 1..Len(svc.calls) :
                IsQuery(svc.calls[i]) /\ svc.calls[i].res = "fail")
              => svc.probes[1] = Disconnected
        /\ svc.calls[1].res = "garbled" => svc.probes[1] = Disconnected

C8_Witness ==
    /\ svc.op = "probe"
    /\ Len(svc.calls) >= 2
    /\ svc.calls[Len(svc.calls)].res = "fail"
    /\ Managed(active) # {}
    /\ svc.probes[1] = Disconnected

\* a session with nothing in it but the connected flag
EmptySession(s) ==
    /\ s.Environment = <<>>
    /\ s.Interface = <<>>
    /\ s.Endpoint = <<>>
    /\ s.LastSeen = <<>>
    /\ s.BytesRx = 0
    /\ s.BytesTx = 0

\* C20: every status a probe returns with Connected = false has an empty
\* environment, interface and endpoint, no time of last handshake and zero
\* byte counters; so has the status the main model starts with.
C20_DisconnectedIsEmpty ==
    /\ ~initialModel.status.Connected /\ EmptySession(initialModel.status)
    /\ svc.op \in {"probe", "stop", "start"} =>
         \A i \in 1..Len(svc.probes) :
             ~svc.probes[i].Connected => EmptySession(svc.probes[i])

\* a probe has come back disconnected because the query of the managed
\* interface it found failed
C20_Witness ==
    /\ svc.op = "probe"
    /\ ~svc.probes[1].Connected
    /\ \E i \in 1..Len(svc.calls) :
         /\ svc.calls[i].cmd = "wg show"
         /\ svc.calls[i].arg \in {JuloProd, JuloNonprod, JuloTest}
         /\ svc.calls[i].res = "fail"

\* C27: when the probe result of Stop is connected and names no interface,
\* Stop attempts the bring-down of julo-prod and then of julo-nonprod, returns
\* success at the first attempt that succeeds without trying the next, and
\* returns the no-active-interface error when both fail.
C27_StopFallback ==
    (svc.op = "stopWith" /\ svc.status.Connected /\ svc.status.Interface = <<>>) =>
        \/ /\ svc.calls = <<Call("wg-quick down", JuloProd, "ok")>>
           /\ svc.err = "nil"
           /\ active = Remove(svc.pre, JuloProd)
        \/ /\ svc.calls = <<Call("wg-quick down", JuloProd, "fail"),
                            Call("wg-quick down", JuloNonprod, "ok")>>
           /\ svc.err = "nil"
           /\ active = Remove(svc.pre, JuloNonprod)
        \/ /\ svc.calls = <<Call("wg-quick down", JuloProd, "fail"),
                            Call("wg-quick down", JuloNonprod, "fail")>>
           /\ svc.err = "no_active_interface"
           /\ active = svc.pre

\* with both interfaces up, the bring-down of julo-prod has failed and the
\* bring-down of julo-nonprod has succeeded
C27_Witness ==
    /\ svc.op = "stopWith"
    /\ svc.status = ConnectedAs(<<>>)
    /\ {JuloProd, JuloNonprod} \subseteq Range(svc.pre)
    /\ svc.calls = <<Call("wg-quick down", JuloProd, "fail"),
                     Call("wg-quick down", JuloNonprod, "ok")>>
    /\ svc.err = "nil"

UnmanagedSeq(act) == SelectSeq(act, LAMBDA n : ~HasPrefix(n, JuloPrefix))

\* C21: no probe, start or stop call issues a bring-up or a bring-down for an
\* interface whose name lacks the managed prefix; no session a probe reports
\* as connected names such an interface; and the interfaces without the
\* prefix are up after the call exactly as they were before it.
C21_UnmanagedUntouched ==
    svc.op \in {"probe", "stop", "start"} =>
        /\ \A i \in 1..Len(svc.calls) :
               (IsUp(svc.calls[i]) \/ IsDown(svc.calls[i]))
                   => HasPrefix(svc.calls[i].arg, JuloPrefix)
        /\ \A i \in 1..Len(svc.probes) :
               svc.probes[i].Connected => HasPrefix(svc.probes[i].Interface, JuloPrefix)
        /\ UnmanagedSeq(active) = UnmanagedSeq(svc.pre)

\* a probe of a dump that lists an unmanaged interface first and two managed
\* ones after it has stopped the second managed one and reports the first
C21_Witness ==
    /\ svc.op = "probe"
    /\ Len(svc.pre) = 3
    /\ svc.pre[1] = Wg0
    /\ Len(ManagedSeq(svc.pre)) = 2
    /\ svc.probes[1].Connected
    /\ \E i \in 1..Len(svc.calls) : svc.calls[i] = Call("wg-quick down", svc.pre[3], "ok")
    /\ Wg0 \in Range(active)

\* C38: every session a probe reports as connected names an interface, and
\* the name begins with the managed prefix; a Stop whose probe is connected
\* therefore ends with one bring-down, of the probed interface, issued right
\* after the query of that interface, and never with the attempts of the
\* fallback
C38_ConnectedNamesManaged ==
    svc.op \in {"probe", "stop", "start"} =>
        /\ \A i \in 1..Len(svc.probes) :
               svc.probes[i].Connected =>
                   /\ svc.probes[i].Interface # <<>>
                   /\ HasPrefix(svc.probes[i].Interface, JuloPrefix)
        /\ (svc.op = "stop" /\ svc.probes[1].Connected) =>
               LET n == Len(svc.calls)
                   probed == svc.probes[1].Interface
               IN  /\ n >= 3
                   /\ svc.calls[n].cmd = "wg-quick down"
                   /\ svc.calls[n].arg = probed
                   /\ svc.calls[n - 1].cmd = "wg show"
                   /\ svc.calls[n - 1].arg = probed
                   /\ svc.err \in {"nil", "down_failed"}
                   /\ svc.err = "nil" => probed \notin Range(active)

\* a Stop with two managed interfaces up: the probe has stopped the second,
\* reported the first, and Stop has brought the first down
C38_Witness ==
    /\ svc.op = "stop"
    /\ Len(ManagedSeq(svc.pre)) = 2
    /\ svc.probes[1].Connected
    /\ svc.probes[1].Interface = ManagedSeq(svc.pre)[1]
    /\ Len(svc.calls) = 4
    /\ svc.calls[4] = Call("wg-quick down", ManagedSeq(svc.pre)[1], "ok")
    /\ svc.err = "nil"
    /\ Managed(active) = {}

---------------------------------------------------------------------------
(* Properties of the configuration processor *)

TemplateAllowedIPsLine(outputPath) ==
    IF outputPath = ProdConfigPath THEN ProdAllowedIPsLine ELSE NonProdAllowedIPsLine

\* the line the merge is to emit for a line of the user's file
Merged(line, outputPath) ==
    IF HasPrefix(line, <<"DNS">>) THEN TemplateDNSLine
    ELSE IF HasPrefix(line, <<"AllowedIPs">>) THEN TemplateAllowedIPsLine(outputPath)
    ELSE line

\* the lines of a file, byte for byte: the runs between newlines
RECURSIVE SplitLines(_)
SplitLines(data) ==
    IF data = <<>> THEN <<>>
    ELSE LET i == IndexOf(data, NL)
         IN  IF i > 0
             THEN <<SubSeq(data, 1, i - 1)>> \o SplitLines(SubSeq(data, i + 1, Len(data)))
             ELSE <<data>>

\* C9: a successful merge leaves at the output path one line for each line
\* the user's file held when the call was made, in the same order: the
\* template's DNS line for a line starting with DNS, the template's AllowedIPs
\* line for a line starting with AllowedIPs, every other line byte-identical.
C9_MergeLineForLine ==
    (cfg.op = "process" /\ cfg.err = "nil") =>
        LET input == SplitLines(cfg.pre[cfg.path])
            output == SplitLines(fs[cfg.outputPath])
        IN  /\ Len(output) = Len(input)
            /\ \A i \in 1..Len(input) : output[i] = Merged(input[i], cfg.outputPath)

\* C10: an extracted endpoint that is neither endpoint constant makes the call
\* fail as unrecognised with no file written; the production constant selects
\* the production template and output path and the non-production constant
\* the non-production ones, and no other file is written.
C10_ClassificationTotal ==
    (cfg.op = "process" /\ cfg.endpoint # <<>>) =>
        IF cfg.endpoint = <<ProdEndpoint>>
        THEN /\ cfg.err # "not_julo_config"
             /\ cfg.templatePath = ProdTemplatePath
             /\ cfg.outputPath = ProdConfigPath
             /\ \A p \in Paths \ {ProdConfigPath} : fs[p] = cfg.pre[p]
        ELSE IF cfg.endpoint = <<NonProdEndpoint>>
        THEN /\ cfg.err # "not_julo_config"
             /\ cfg.templatePath = NonProdTemplatePath
             /\ cfg.outputPath = NonProdConfigPath
             /\ \A p \in Paths \ {NonProdConfigPath} : fs[p] = cfg.pre[p]
        ELSE /\ cfg.err = "not_julo_config"
             /\ fs = cfg.pre

C10_Witness ==
    /\ cfg.op = "process"
    /\ cfg.endpoint = <<ProdEndpoint, "0">>
    /\ cfg.err = "not_julo_config"
    /\ cfg.path = UserPath

\* C11: ProcessUserConfig never modifies the file at the path it is given:
\* after the call, whatever its result, the file at that path holds what it
\* held before the call, also when the path is the merged-output path.
C11_UserFileUnmodified ==
    cfg.op = "process" => fs[cfg.path] = cfg.pre[cfg.path]

\* C22: after InstallTemplates succeeds both template files hold the embedded
\* constants, whatever they held before, and no other file has changed; and a
\* second InstallTemplates leaves the files as the first one left them.
C22_InstallIdempotent ==
    (cfg.op = "install" /\ cfg.err = "nil") =>
        /\ fs[ProdTemplatePath] = prodTemplateContent
        /\ fs[NonProdTemplatePath] = nonprodTemplateContent
        /\ \A p \in Paths \ {ProdTemplatePath, NonProdTemplatePath} : fs[p] = cfg.pre[p]
        /\ InstallTemplates(fs, "none") = [err |-> "nil", files |-> fs]

\* InstallTemplates has succeeded over a production template that had lost
\* its DNS line and a non-production template that was missing
C22_Witness ==
    /\ cfg.op = "install"
    /\ cfg.err = "nil"
    /\ cfg.pre[ProdTemplatePath] = DropLines(prodTemplateContent, "DNS")
    /\ cfg.pre[NonProdTemplatePath] = NoFile

\* C23: when a merge dispatched from the interface fails because the creation
\* of the output file is denied, the completion message reports failure and
\* its error is the remediation message of the platform, not the raw error.
C23_WriteDeniedRemediation ==
    (cfg.op = "updateConfig" /\ cfg.raw = "create_denied") =>
        /\ ~cfg.msg.success
        /\ cfg.msg.err = getPermissionErrorMessage(cfg.goos)

\* the lines a Scanner reads of a file that contain "Endpoint" and have three
\* fields, and the lines that start with key
EndpointLinesOf(file) ==
    SelectSeq(Scan(file).lines,
              LAMBDA l : Contains(l, <<"Endpoint">>) /\ Len(Fields(l)) >= 3)
LinesWithKey(file, key) == SelectSeq(Scan(file).lines, LAMBDA l : HasPrefix(l, <<key>>))
TemplatePathFor(endpoint) ==
    IF endpoint = <<ProdEndpoint>> THEN ProdTemplatePath ELSE NonProdTemplatePath

\* the first check that a call of ProcessUserConfig fails, in the order: the
\* user's file exists, an endpoint can be extracted, the endpoint is
\* recognised, the template exists, the template has a DNS line, the template
\* has an AllowedIPs line
FirstFailingCheck(files, path, fault) ==
    IF files[path] = NoFile THEN "user_config_not_found"
    ELSE IF fault = "user_unreadable" THEN "open_denied"
    ELSE IF EndpointLinesOf(files[path]) = <<>> THEN "no_endpoint"
    ELSE LET endpoint == Fields(EndpointLinesOf(files[path])[1])[3]
         IN  IF endpoint \notin {<<ProdEndpoint>>, <<NonProdEndpoint>>} THEN "not_julo_config"
             ELSE IF files[TemplatePathFor(endpoint)] = NoFile THEN "template_not_found"
             ELSE IF LinesWithKey(files[TemplatePathFor(endpoint)], "DNS") = <<>>
             THEN "template_no_dns"
             ELSE IF LinesWithKey(files[TemplatePathFor(endpoint)], "AllowedIPs") = <<>>
             THEN "template_no_allowedips"
             ELSE "none"

\* C24: ProcessUserConfig returns the error of the first check that fails, in
\* the order user file exists, endpoint extractable, endpoint recognised,
\* template exists, template has a DNS line, template has an AllowedIPs line,
\* and then writes nothing; when every check passes, the error, if any, is one
\* of the merge itself.
C24_ChecksInOrder ==
    cfg.op = "process" =>
        LET first == FirstFailingCheck(cfg.pre, cfg.path, cfg.fault)
        IN  IF first # "none"
            THEN cfg.err = first /\ fs = cfg.pre
            ELSE cfg.err \in {"nil", "create_denied", "bufio.Scanner: token too long"}

\* the user's file names the production endpoint and the production template
\* is an empty file: it has neither line, and the DNS line is the one reported
C24_Witness ==
    /\ cfg.op = "process"
    /\ cfg.err = "template_no_dns"
    /\ cfg.pre[ProdTemplatePath] = <<>>
    /\ cfg.pre[NonProdTemplatePath] = NoFile

\* the user's file of the call exists and can be opened
UserFileRead ==
    /\ cfg.op = "process"
    /\ cfg.pre[cfg.path] # NoFile
    /\ cfg.fault # "user_unreadable"

\* C25 as stated: the endpoint is the third field of the first line of the
\* user's file that contains "Endpoint"; later lines are never consulted, and
\* when that line yields no endpoint the call fails with the no-endpoint error.
C25_FirstTokenLineDecides ==
    UserFileRead =>
        LET tokenLines == SelectSeq(ScanLines(cfg.pre[cfg.path]),
                                    LAMBDA l : Contains(l, <<"Endpoint">>))
        IN  IF tokenLines = <<>> \/ Len(Fields(tokenLines[1])) < 3
            THEN cfg.err = "no_endpoint"
            ELSE cfg.err # "no_endpoint" /\ cfg.endpoint = Fields(tokenLines[1])[3]

\* C25 amended: the endpoint is the third field of the first line, among the
\* lines the Scanner reads, that contains "Endpoint" and has at least three
\* fields; lines before it that contain "Endpoint" with fewer fields are
\* skipped, lines after it are never consulted, and when no line read yields
\* an endpoint the call fails with the no-endpoint error.
C25_FirstLineWithThreeFields ==
    UserFileRead =>
        LET yielding == EndpointLinesOf(cfg.pre[cfg.path])
        IN  IF yielding = <<>>
            THEN cfg.err = "no_endpoint"
            ELSE cfg.err # "no_endpoint" /\ cfg.endpoint = Fields(yielding[1])[3]

\* the user's file has a comment that mentions "Endpoint" and then the line
\* of the production endpoint, and the call has classified it as production
C25_Witness ==
    /\ UserFileRead
    /\ cfg.pre[cfg.path] = JoinLines(<<LEndpointComment, LEndpointProd>>)
    /\ cfg.endpoint = <<ProdEndpoint>>
    /\ cfg.outputPath = ProdConfigPath

\* C28: when ProcessUserConfig returns an error, also one raised while the
\* user's file is read after the checks have passed, the merged
\* configurations stored at the output paths hold what they held before the
\* call.
C28_ErrorLeavesOutput ==
    (cfg.op = "process" /\ cfg.err # "nil") =>
        \A p \in {ProdConfigPath, NonProdConfigPath} : fs[p] = cfg.pre[p]

---------------------------------------------------------------------------
(* Properties of the first start *)

\* the files of ConfigDir whose existence check has failed in the call that
\* has just returned: sudo has not run the test, or the test has found no file
CheckFailed(filename) ==
    filename \in cfg.refused \/ cfg.pre[JoinConfigDir(filename)] = NoFile

GivenPaths == SelectSeq(<<cfg.prodPath, cfg.nonprodPath>>, LAMBDA p : p # "")

\* the message of RunSetup for a failure of the step that processes path
FailureOf(path) ==
    IF path = cfg.prodPath /\ (cfg.nonprodPath # path \/ Len(cfg.calls) = 2)
    THEN "failed to process production config"
    ELSE "failed to process non-production config"

\* C36: RunSetup first installs the templates and processes nothing when
\* that fails; then it processes the paths given, the production path before
\* the non-production path and no empty path, up to the first one that fails;
\* it returns the failure of that step, or nil after the last; both templates
\* are installed from then on, whatever a later step does
C36_SetupInOrder ==
    cfg.op = "runSetup" =>
        LET n == Len(cfg.calls) - 1
        IN  /\ n >= 0
            /\ cfg.calls[1].call = "InstallTemplates"
            /\ cfg.calls[1].err # "nil" =>
                   /\ n = 0
                   /\ cfg.err = "failed to install templates"
                   /\ \A p \in InstallPaths \ {ProdTemplatePath, NonProdTemplatePath} :
                          fs[p] = cfg.pre[p]
            /\ cfg.calls[1].err = "nil" =>
                   /\ fs[ProdTemplatePath] = prodTemplateContent
                   /\ fs[NonProdTemplatePath] = nonprodTemplateContent
                   /\ n <= Len(GivenPaths)
                   /\ \A i \in 1..n :
                          /\ cfg.calls[i + 1].call = "ProcessUserConfig"
                          /\ cfg.calls[i + 1].path = GivenPaths[i]
                          /\ i < n => cfg.calls[i + 1].err = "nil"
                   /\ IF n > 0 /\ cfg.calls[n + 1].err # "nil"
                      THEN cfg.err = FailureOf(GivenPaths[n])
                      ELSE n = Len(GivenPaths) /\ cfg.err = "nil"

\* no template was installed; the production file cannot be opened: the
\* run has installed both templates and has not processed the second file
C36_Witness ==
    /\ cfg.op = "runSetup"
    /\ cfg.pre[ProdTemplatePath] = NoFile
    /\ cfg.pre[NonProdTemplatePath] = NoFile
    /\ cfg.prodPath = UserPath
    /\ cfg.nonprodPath = NonProdUserPath
    /\ cfg.pre[NonProdUserPath] = SampleNonProdUser
    /\ Len(cfg.calls) = 2
    /\ cfg.err = "failed to process production config"
    /\ fs[ProdTemplatePath] = prodTemplateContent
    /\ fs[NonProdTemplatePath] = nonprodTemplateContent
    /\ fs[NonProdConfigPath] = NoFile

\* the merged configuration the processor derives from a user's file for
\* the environment of the template lines dns and ips
DerivedFrom(user, dns, ips) == MergeLines(<<>>, Scan(user).lines, dns, ips)

\* C37: after RunSetup has succeeded with both paths given, both merged
\* configurations exist, the production one derived from the file at
\* prodPath and the non-production one from the file at nonprodPath, and a
\* status check that finds what is on the disk no longer asks for setup
C37_SetupCompletes ==
    (cfg.op = "runSetup" /\ cfg.err = "nil" /\ cfg.prodPath # "" /\ cfg.nonprodPath # "") =>
        /\ fs[ProdConfigPath] # NoFile
        /\ fs[NonProdConfigPath] # NoFile
        /\ fs[ProdConfigPath] =
               DerivedFrom(cfg.pre[cfg.prodPath], TemplateDNSLine, ProdAllowedIPsLine)
        /\ fs[NonProdConfigPath] =
               DerivedFrom(cfg.pre[cfg.nonprodPath], TemplateDNSLine, NonProdAllowedIPsLine)
        /\ ~CheckSetupStatus(fs, {}).NeedsSetup

---------------------------------------------------------------------------
(* Properties of the file browsers and of the setup wizard *)

\* C32: whenever main calls RunSetupDirectly after the wizard has ended,
\* both the production and the non-production path are set, whatever keys
\* were pressed, also when the wizard was left with q or ctrl+c.
C32_BothPathsConfirmed ==
    cfg.op = "runSetup" => cfg.prodPath # "" /\ cfg.nonprodPath # ""

\* the setup wizard is in a text-input stage
TextStage == m.type = "SetupModel" /\ m.stage \in {3, 5} /\ m.inputMode = 0

\* C33: in the text-input stages of the setup wizard every key other than
\* enter, esc, tab and ctrl+c is forwarded to the text field of the current
\* step: Update returns the model with the field that the field's own
\* Update makes of the key, so a character typed is in the input.
C33_KeysReachTextField ==
    TextStage =>
        \A key \in SetupKeys \ {"enter", "esc", "tab", "ctrl+c"} :
            SetupModelKey(m, key, fs).m.inputs[currentInput(m)]
                = TextInputUpdate(m.inputs[currentInput(m)], key)

\* the browser is on screen
BrowserShown == m.type = "UpdateModel" \/ (m.type = "SetupModel" /\ m.stage = 2)

\* the paths the browsers have handed over
SelectedPaths ==
    IF m.type = "UpdateModel" THEN {upd.configPath} \ {""}
    ELSE {m.prodPath, m.nonprodPath} \ {""}

\* C34: in both file browsers the file list on screen is the listing of
\* currentDir, and a selected config path names a file that exists, after
\* every navigation step, also after entering a directory whose listing
\* fails to load.
C34_ListIsOfCurrentDir ==
    /\ BrowserShown => m.files = ListingOf(fs, m.currentDir, m.showHidden)
    /\ \A path \in SelectedPaths : fs[path] # NoFile

\* C39: in both file browsers, whenever the file list is not empty the
\* cursor is an index of the list and lies inside the viewport, which does
\* not start below zero:
\* 0 <= selectedIndex < len(files), viewportStart >= 0 and
\* viewportStart <= selectedIndex < viewportStart + viewportSize.
C39_CursorInView ==
    m.files # <<>> =>
        /\ 0 <= m.selectedIndex
        /\ m.selectedIndex < Len(m.files)
        /\ m.viewportStart >= 0
        /\ m.viewportStart <= m.selectedIndex
        /\ m.selectedIndex < m.viewportStart + m.viewportSize

\* the update model's cursor is on the last entry of a list longer than the
\* viewport, which has moved to show it
C39_Witness ==
    /\ m.type = "UpdateModel"
    /\ Len(m.files) > m.viewportSize
    /\ m.selectedIndex = Len(m.files) - 1
    /\ m.viewportStart = Len(m.files) - m.viewportSize

---------------------------------------------------------------------------
(* Properties of the main model *)

\* C1: at most one background task is in flight at any time: between the
\* return of a task command by Init or Update and the consumption of its
\* completion message, Update returns no other task command.
C1_SingleFlight == InFlight <= 1

\* the last Update call handled the successful completion of a Start or Stop
OperationSucceeded(u) ==
    /\ u.type = "vpnOperationMsg"
    /\ u.success
    /\ u.operation # <<"update_config">>

\* C12: when a Start or Stop completes successfully Update dispatches exactly
\* one follow-up probe; the probe's result replaces the displayed status when
\* its message is consumed; and while that refresh is outstanding no key the
\* user presses ends the program or dispatches another task.
C12_RefreshAfterSuccess ==
    [][ /\ OperationSucceeded(upd') =>
             /\ upd'.cmd = checkVPNStatus
             /\ InFlight' = InFlight
             /\ tasks'[InFlight'] = checkVPNStatus
        /\ upd'.type = "vpnStatusMsg" =>
             \E r \in ProbeRuns(active) : active' = r.act /\ m'.status = r.status
        /\ (OperationSucceeded(upd) /\ upd'.type = "tea.KeyMsg") =>
             (upd'.cmd # QuitCmd /\ ~IsTask(upd'.cmd)) ]_vars

\* C13: in every reachable state of the main model, a background task that
\* is outstanding (dispatched, its message not yet consumed) implies that the
\* loading flag is set.
C13_OutstandingImpliesLoading == InFlight > 0 => m.loading

\* C14: in every reachable state of the main model, also while a task is
\* outstanding and the model is loading, Update answers the keys q and ctrl+c
\* with tea.Quit.
C14_QuitKeyAlwaysQuits ==
    \A key \in {"q", "ctrl+c"} :
        \A configPath \in {""} \cup Selectable :
            UpdateKey(m, key, configPath).cmd = QuitCmd

\* C15: the completion of a command hands exactly one message to Update and
\* takes exactly that command out of the ones in flight; and, the external
\* calls returning, a model that is loading stops loading without any key
\* being pressed.
C15_LoadingEnds ==
    /\ [][upd'.type \in {"vpnStatusMsg", "vpnOperationMsg"} =>
            \E i \in 1..InFlight :
               /\ upd'.type = (IF tasks[i].cmd = "checkVPNStatus"
                               THEN "vpnStatusMsg" ELSE "vpnOperationMsg")
               /\ tasks' = RemoveAt(tasks, i) \o
                             (IF IsTask(upd'.cmd) THEN <<upd'.cmd>> ELSE <<>>)]_vars
    /\ m.loading ~> ~m.loading

\* a failed operation has been consumed and the model has stopped loading
C15_Witness ==
    /\ upd.type = "vpnOperationMsg"
    /\ ~upd.success
    /\ ~m.loading
    /\ InFlight = 0

\* the last Update call handled the failed completion of a Start, Stop or Merge
OperationFailed(u) == u.type = "vpnOperationMsg" /\ ~u.success

\* C16: after a failed Start, Stop or Merge the program has not quit, the
\* model is not loading, and Enter or Space on one of the four operation
\* entries of the main menu makes Update return a task.
C16_UsableAfterFailure ==
    OperationFailed(upd) =>
        /\ ~quit
        /\ upd.cmd # QuitCmd
        /\ ~m.loading
        /\ (m.activePanel = 0 /\ ~m.showInputPanel /\ m.cursor \in 0..3) =>
              \A key \in {"enter", " "} : IsTask(UpdateKey(m, key, "").cmd)

\* a Start has failed with the cursor still on its entry of the main menu
C16_Witness ==
    /\ OperationFailed(upd)
    /\ upd.operation = <<"start_">> \o Production
    /\ m.activePanel = 0
    /\ ~m.showInputPanel
    /\ m.cursor = 0

\* C29: a Start, Stop or Merge completion message with success = false leaves
\* the displayed status as it was and makes Update return no command, also
\* when the failed Start had brought down the session that is displayed; the
\* displayed status changes only in the step that consumes a vpnStatusMsg.
C29_FailureKeepsStatus ==
    [][ /\ OperationFailed(upd') =>
             /\ m'.status = m.status
             /\ upd'.cmd = NoCmd
             /\ InFlight' = InFlight - 1
        /\ m'.status # m.status => upd'.type = "vpnStatusMsg" ]_vars

\* a Start of production has failed after it had brought down the
\* non-production session, which is still the one displayed
C29_Witness ==
    /\ OperationFailed(upd)
    /\ upd.operation = <<"start_">> \o Production
    /\ m.status.Connected
    /\ m.status.Interface = JuloNonprod
    /\ active = <<>>

\* the Merge tasks among the commands in flight
MergeTasks(running) == SelectSeq(running, LAMBDA c : c.cmd = "updateConfig")

\* C30: in the Update step in which the input model reports a selected
\* configuration path, the main model closes the input panel, discards the
\* input model, gives the focus back to panel 0, sets loading and dispatches
\* one Merge task for that path after the tasks already in flight; no other
\* step adds a Merge task or returns the command of one
C30_PathStartsOneMerge ==
    [][ /\ upd'.configPath # "" =>
             /\ ~m'.showInputPanel
             /\ m'.inputModel = "nil"
             /\ m'.activePanel = 0
             /\ m'.loading
             /\ upd'.cmd = updateConfigCmd(upd'.configPath)
             /\ tasks' = Append(tasks, updateConfigCmd(upd'.configPath))
        /\ upd'.configPath = "" =>
             /\ upd'.cmd.cmd # "updateConfig"
             /\ Len(MergeTasks(tasks')) <= Len(MergeTasks(tasks)) ]_vars

\* a file has just been picked while the first status query was still in
\* flight: the Merge of that file is queued behind it
C30_Witness ==
    /\ upd.type = "tea.KeyMsg"
    /\ upd.configPath = UserPath
    /\ tasks = <<checkVPNStatus, updateConfigCmd(UserPath)>>
    /\ m.loading
    /\ ~m.showInputPanel

\* the commands of the Start, Stop and Probe tasks
IsSessionTask(c) == c.cmd \in {"startVPN", "stopVPN", "checkVPNStatus"}
SessionTasks(running) == SelectSeq(running, IsSessionTask)

\* C31: while the input panel is shown, a press of Enter or Space returns no
\* Start, Stop or Probe command and adds no such task, whatever the active
\* panel and the cursor are; a press of Esc then closes the panel, discards
\* the input model, gives the focus back to panel 0, dispatches nothing and
\* does not quit; a press of Esc quits only when no input panel is shown
C31_PanelShieldsMenu ==
    [][ /\ (KeyEnter /\ m.showInputPanel) =>
             /\ ~IsSessionTask(upd'.cmd)
             /\ SessionTasks(tasks') = SessionTasks(tasks)
        /\ (KeyEsc /\ m.showInputPanel) =>
             /\ ~m'.showInputPanel
             /\ m'.inputModel = "nil"
             /\ m'.activePanel = 0
             /\ upd'.cmd = NoCmd
             /\ tasks' = tasks
             /\ ~quit'
        /\ (KeyEsc /\ quit') => ~m.showInputPanel ]_vars

\* the input panel is shown while the focus is on the main panel and the
\* cursor on "Start Production VPN": Enter has just been pressed to no effect
C31_Witness ==
    /\ upd.type = "tea.KeyMsg"
    /\ upd.cmd = NoCmd
    /\ m.showInputPanel
    /\ m.activePanel = 0
    /\ m.cursor = 0
    /\ ~m.loading
    /\ ~quit

---------------------------------------------------------------------------
(* Properties of the status query *)

\* the binary multiple a unit stands for, and the byte count a text stands for
MultipleOf(unit) ==
    IF unit = KiB THEN 1024
    ELSE IF unit = MiB THEN 1024 * 1024
    ELSE IF unit = GiB THEN 1024 * 1024 * 1024
    ELSE 1
BytesOf(c) ==
    LET f == ParseFloat(c.num) IN Scale(f.whole, f.hundredths, MultipleOf(c.unit))

\* C18: a transfer value of the form "<value> <unit>, <value> <unit>", units
\* B, KiB, MiB or GiB, sets the received and the sent byte counters to the
\* values scaled by the binary multiple of their units; "1.50 MiB, 200 KiB"
\* gives 1572864 and 204800.
C18_TransferScaled ==
    (svc.op = "getInterfaceStatus" /\ svc.status.Connected /\ svc.spaced /\ ~svc.worded) =>
        /\ svc.status.BytesRx = BytesOf(svc.rx)
        /\ svc.status.BytesTx = BytesOf(svc.tx)
        /\ (svc.rx = [num |-> <<"1", ".", "50">>, unit |-> MiB]
              /\ svc.tx = [num |-> <<"200">>, unit |-> KiB]) =>
               (svc.status.BytesRx = 1572864 /\ svc.status.BytesTx = 204800)

\* C19: a handshake text "<N> second(s)" gives the time of the query minus N
\* seconds and "<N> minute(s)" the time of the query minus N minutes; every
\* other text (compound phrases, "0", the empty text) leaves the time of the
\* last handshake absent; the query returns no error.
C19_HandshakeTime ==
    (svc.op = "getInterfaceStatus" /\ svc.status.Connected) =>
        /\ svc.err = "nil"
        /\ \A h \in SimpleHandshakes :
             svc.handshake = h.text => svc.status.LastSeen = <<svc.now - h.n * h.unit>>
        /\ svc.handshake \in OtherHandshakes => svc.status.LastSeen = <<>>

---------------------------------------------------------------------------
(* Properties of GetConfig *)

\* the key lines of a stored configuration, comments left out, and the lines
\* of a text that end in the marker
KeyLinesOf(file) ==
    SelectSeq(Split(file, NL),
              LAMBDA l : TrimSpace(l) # <<>> /\ TrimSpace(l)[1] \in KeyNames)
HiddenLinesOf(text) == SelectSeq(Split(text, NL), LAMBDA l : HasSuffix(l, <<Hidden>>))
OtherEnv(env) == IF env = Production THEN NonProduction ELSE Production

\* C17: the text GetConfig returns holds no key material of the stored
\* configuration; every PrivateKey, PresharedKey and PublicKey line is
\* replaced by its name and the marker; and a stored configuration that
\* differs in key material only gives the same text.
C17_KeysHidden ==
    (svc.op = "GetConfig" /\ svc.err = "nil") =>
        LET stored == fs[ConfigPathOf(svc.env)]
            keyLines == KeyLinesOf(stored)
            hidden == HiddenLinesOf(svc.text)
        IN  /\ \A i \in 1..Len(svc.text) : svc.text[i] \notin {KeyA, KeyB}
            /\ Len(hidden) = Len(keyLines)
            /\ \A i \in 1..Len(hidden) :
                 hidden[i] = <<TrimSpace(keyLines[i])[1], SP, "=", SP, Hidden>>
            /\ fs[ConfigPathOf(OtherEnv(svc.env))] # NoFile =>
                 svc.text = GetConfig(fs, OtherEnv(svc.env)).text

\* GetConfig has returned the text of a configuration with a key line, and a
\* configuration with other key material is stored next to it
C17_Witness ==
    /\ svc.op = "GetConfig"
    /\ svc.err = "nil"
    /\ Len(KeyLinesOf(fs[ConfigPathOf(svc.env)])) = MaxStored
    /\ fs[NonProdConfigPath] # NoFile
    /\ fs[NonProdConfigPath] # fs[ProdConfigPath]

---------------------------------------------------------------------------
(* Properties of the environment of a session *)

HasNonProdMarker(name) ==
    \E i \in 1..(Len(name) - 1) : name[i] = "non" /\ name[i + 1] = "prod"
HasProdMarker(name) == \E i \in 1..Len(name) : name[i] = "prod"

\* C26: the environment of a connected result is NonProduction whenever the
\* interface name contains "nonprod", Production when it contains "prod" and
\* not "nonprod", and absent when it contains neither; a name that contains
\* "nonprod" is never classified as Production.
C26_EnvironmentByMarker ==
    (svc.op = "getInterfaceStatus" /\ svc.status.Connected) =>
        /\ svc.status.Interface = svc.name
        /\ HasNonProdMarker(svc.name) => svc.status.Environment = NonProduction
        /\ (HasProdMarker(svc.name) /\ ~HasNonProdMarker(svc.name))
              => svc.status.Environment = Production
        /\ (~HasProdMarker(svc.name) /\ ~HasNonProdMarker(svc.name))
              => svc.status.Environment = NoEnvironment

\* the interface julo-prod-nonprod has been queried and is reported connected
C26_Witness ==
    /\ svc.op = "getInterfaceStatus"
    /\ svc.status.Connected
    /\ svc.name = JuloProdNonprod
    /\ svc.status.Environment = NonProduction

====
